---- MODULE Spec2Model ----
(***************************************************************************)
(* Tala ride-booking front end: the realtime voice gateway (src/main.py)   *)
(* and the text/hybrid gateway (src/fc.py), modelled as state machines of  *)
(* one client connection, stepping at the awaits of handle_websocket.      *)
(*                                                                         *)
(* Python values.  A str is the sequence of its characters, so that the    *)
(* date and time parsers below read it character by character; None is a   *)
(* one-element tuple no character string equals; a dict is a function from *)
(* its keys (TLA+ strings) to values.                                      *)
(***************************************************************************)
EXTENDS Integers, Sequences, FiniteSets, TLC

VARIABLES
    gateway,            \* which program serves the connection: "voice" (main.py) or "hybrid" (fc.py)
    pc,                 \* position of handle_websocket
    g2c,                \* position of the task gemini_to_client (voice)
    c2g,                \* position of the task client_to_gemini (voice)
    socket,             \* the client websocket: "open", "client_closed", "closed"
    session,            \* the model live session: "none", "open", "closed"
    session_id,         \* handle_websocket's session_id
    state,              \* handle_websocket's state dict (the RideDraftState)
    message,            \* the last frame read from the websocket
    gemini_message,     \* the model event being handled
    function_responses, \* the FunctionResponse list of the event being handled
    n8n_payload,        \* the payload of the webhook call in flight
    webhook_outcome,    \* what the webhook call of the current function call did
    state_before,       \* history: state when the loop took the current function call
    booking_confirmed,  \* gemini_to_client's latch
    full_response_text, \* fc.py: the reply text of the turn so far
    transcription,      \* fc.py: the transcription of the turn so far
    sent,               \* what the last step wrote to the websocket
    to_session,         \* what the last step sent to the model session
    fare_returned,      \* history: a get_fare_details webhook reply carried a fare
    reply_fares,        \* history: the fare values seen in webhook replies
    n_events,           \* model events consumed so far
    n_frames,           \* client frames read so far
    n_calls,            \* function calls taken so far
    elapsed,            \* clock ticks since the handler started (fc.py asyncio.timeout)
    idle,               \* history: clock ticks since the last frame of the client
    close_frame,        \* the close frame the gateway sent, NoClose if none
    turn_complete,      \* the last step handled the turn-complete signal of an event
    threads,            \* wa.py: the rows of table threads
    now,                \* wa.py: datetime.now(), in minutes
    current_state,      \* wa.py: the module global current_state
    inv,                \* wa.py: the invocation of generate_response under way
    webhook,            \* the last call of call_n8n_webhook made on its own
    health,             \* main.py: the health listener's last exchange
    conns               \* the concurrent connections of one gateway process

gatewayVars ==
    <<gateway, pc, g2c, c2g, socket, session, session_id, state, message,
      gemini_message, function_responses, n8n_payload, webhook_outcome,
      state_before, booking_confirmed, full_response_text, transcription, sent,
      to_session, fare_returned, reply_fares, n_events, n_frames, n_calls,
      elapsed, idle, close_frame, turn_complete>>

waVars == <<threads, now, current_state, inv>>

auxVars == <<webhook, health, conns>>

vars == <<gatewayVars, waVars, auxVars>>

-----------------------------------------------------------------------------
(* Bounds of the model. *)

MaxEvents == 3
MaxCalls == 2
MaxFrames == 2

-----------------------------------------------------------------------------
(* Python values. *)

None == <<"None">>

Unknown == <<"U", "n", "k", "n", "o", "w", "n">>
PalmJumeirah == <<"P", "a", "l", "m", " ", "J", "u", "m", "e", "i", "r", "a", "h", ",", " ", "D", "u", "b", "a", "i">>
UnknownLocation == <<"U", "n", "k", "n", "o", "w", "n", " ", "l", "o", "c", "a", "t", "i", "o", "n">>

d_24_05_2025 == <<"2", "4", "-", "0", "5", "-", "2", "0", "2", "5">>
d_2025_05_24 == <<"2", "0", "2", "5", "-", "0", "5", "-", "2", "4">>
d_1_5_2025 == <<"1", "-", "5", "-", "2", "0", "2", "5">>
d_31_02_2025 == <<"3", "1", "-", "0", "2", "-", "2", "0", "2", "5">>
d_29_02_2024 == <<"2", "9", "-", "0", "2", "-", "2", "0", "2", "4">>
d_29_02_2025 == <<"2", "9", "-", "0", "2", "-", "2", "0", "2", "5">>
d_29_02_1900 == <<"2", "9", "-", "0", "2", "-", "1", "9", "0", "0">>
d_24_05_25 == <<"2", "4", "-", "0", "5", "-", "2", "5">>
d_slash == <<"2", "4", "/", "0", "5", "/", "2", "0", "2", "5">>
d_00_05_2025 == <<"0", "0", "-", "0", "5", "-", "2", "0", "2", "5">>
d_24_13_2025 == <<"2", "4", "-", "1", "3", "-", "2", "0", "2", "5">>
d_24_05_20255 == <<"2", "4", "-", "0", "5", "-", "2", "0", "2", "5", "5">>

t_3_30_PM == <<"3", ":", "3", "0", " ", "P", "M">>
t_15_30 == <<"1", "5", ":", "3", "0">>
t_03_30_PM == <<"0", "3", ":", "3", "0", " ", "P", "M">>
t_3_5_PM == <<"3", ":", "5", " ", "P", "M">>
t_3_30_pm == <<"3", ":", "3", "0", " ", "p", "m">>
t_3_30PM == <<"3", ":", "3", "0", "P", "M">>
t_0_30_PM == <<"0", ":", "3", "0", " ", "P", "M">>
t_13_30_PM == <<"1", "3", ":", "3", "0", " ", "P", "M">>
t_12_60_AM == <<"1", "2", ":", "6", "0", " ", "A", "M">>
t_12_00_AM == <<"1", "2", ":", "0", "0", " ", "A", "M">>
t_9_00_AM == <<"9", ":", "0", "0", " ", "A", "M">>

\* bool(v) of a value that is None or a str
Truthy(v) == v # None /\ v # <<>>

\* d.get(k, default)
Get(d, k, default) == IF k \in DOMAIN d THEN d[k] ELSE default

\* dict.update: every key of a is set to a's value, every other key is kept
\* (a mutant: keys the dict already has are not overwritten)
UpdateKeepsOld(d, a) ==
    [k \in DOMAIN d \cup DOMAIN a |-> IF k \in DOMAIN d THEN d[k] ELSE a[k]]

Update(d, a) ==
    [k \in DOMAIN d \cup DOMAIN a |-> IF k \in DOMAIN a THEN a[k] ELSE d[k]]

\* d[k] = v
SetItem(d, k, v) == [j \in DOMAIN d \cup {k} |-> IF j = k THEN v ELSE d[j]]

-----------------------------------------------------------------------------
(* datetime.strptime, for the two formats the gateways use.  The format is  *)
(* compiled to a regular expression matched at the start of the string:    *)
(*   %d  3[0-1]|[1-2]\d|0[1-9]|[1-9]| [1-9]     %m  1[0-2]|0[1-9]|[1-9]    *)
(*   %Y  \d\d\d\d    %I  1[0-2]|0[1-9]|[1-9]    %M  [0-5]\d|\d             *)
(*   %p  am|pm (case ignored)    a blank of the format  \s+                *)
(* text left after the match, or a day the month does not have, is a       *)
(* ValueError as well.                                                     *)

Digit == {"0", "1", "2", "3", "4", "5", "6", "7", "8", "9"}
NonZero == Digit \ {"0"}

DigitVal(c) ==
    CASE c = "0" -> 0 [] c = "1" -> 1 [] c = "2" -> 2 [] c = "3" -> 3
      [] c = "4" -> 4 [] c = "5" -> 5 [] c = "6" -> 6 [] c = "7" -> 7
      [] c = "8" -> 8 [] c = "9" -> 9 [] OTHER -> 0

RECURSIVE IntOf(_)
\* int() of a run of digits (a leading blank counts as nothing)
IntOf(s) ==
    IF s = <<>> THEN 0
    ELSE 10 * IntOf(SubSeq(s, 1, Len(s) - 1)) + DigitVal(s[Len(s)])

Match_d(s) ==
    \/ Len(s) = 2 /\ s[1] = "3" /\ s[2] \in {"0", "1"}
    \/ Len(s) = 2 /\ s[1] \in {"1", "2"} /\ s[2] \in Digit
    \/ Len(s) = 2 /\ s[1] = "0" /\ s[2] \in NonZero
    \/ Len(s) = 1 /\ s[1] \in NonZero
    \/ Len(s) = 2 /\ s[1] = " " /\ s[2] \in NonZero

\* %m and %I compile to the same alternatives
Match_m(s) ==
    \/ Len(s) = 2 /\ s[1] = "1" /\ s[2] \in {"0", "1", "2"}
    \/ Len(s) = 2 /\ s[1] = "0" /\ s[2] \in NonZero
    \/ Len(s) = 1 /\ s[1] \in NonZero

Match_Y(s) == Len(s) = 4 /\ \A i \in 1..4 : s[i] \in Digit

Match_M(s) ==
    \/ Len(s) = 2 /\ s[1] \in {"0", "1", "2", "3", "4", "5"} /\ s[2] \in Digit
    \/ Len(s) = 1 /\ s[1] \in Digit

Match_p(s) == Len(s) = 2 /\ s[1] \in {"a", "A", "p", "P"} /\ s[2] \in {"m", "M"}

Match_blank(s) == Len(s) >= 1 /\ \A i \in 1..Len(s) : s[i] = " "

IsLeap(y) == (y % 4 = 0 /\ y % 100 # 0) \/ y % 400 = 0

DaysInMonth(m, y) ==
    IF m = 2 THEN (IF IsLeap(y) THEN 29 ELSE 28)
    ELSE IF m \in {4, 6, 9, 11} THEN 30 ELSE 31

\* datetime.date(y, m, d) exists
DateExists(d, m, y) == y >= 1 /\ m \in 1..12 /\ d >= 1 /\ d <= DaysInMonth(m, y)

\* datetime.strptime(s, "%d-%m-%Y") returns (does not raise ValueError)
StrptimeDate(s) ==
    \E i, j \in 1..Len(s) :
        /\ i < j /\ s[i] = "-" /\ s[j] = "-"
        /\ Match_d(SubSeq(s, 1, i - 1))
        /\ Match_m(SubSeq(s, i + 1, j - 1))
        /\ Match_Y(SubSeq(s, j + 1, Len(s)))
        /\ DateExists(IntOf(SubSeq(s, 1, i - 1)), IntOf(SubSeq(s, i + 1, j - 1)),
                      IntOf(SubSeq(s, j + 1, Len(s))))

\* datetime.strptime(s, "%I:%M %p") returns (does not raise ValueError)
StrptimeTime(s) ==
    \E i, j, k \in 1..Len(s) :
        /\ i < j /\ j < k /\ s[i] = ":"
        /\ Match_m(SubSeq(s, 1, i - 1))
        /\ Match_M(SubSeq(s, i + 1, j))
        /\ Match_blank(SubSeq(s, j + 1, k - 1))
        /\ Match_p(SubSeq(s, k, Len(s)))

\* a mutant of the validation: the time is not checked
DateTimeValidDateOnly(st) ==
    IF Truthy(st["startDate"]) THEN StrptimeDate(st["startDate"]) ELSE TRUE

\* the try block at main.py 229-231 and fc.py 190-194 raises no ValueError
DateTimeValid(st) ==
    /\ IF Truthy(st["startDate"]) THEN StrptimeDate(st["startDate"]) ELSE TRUE
    /\ IF Truthy(st["startTime"]) THEN StrptimeTime(st["startTime"]) ELSE TRUE

-----------------------------------------------------------------------------
(* Inputs: what the client, the model session and the webhook can hand the *)
(* gateway.                                                                *)

SessionIds == {"s1"}

str_auth == <<"a", "u", "t", "h">>
str_hello == <<"h", "e", "l", "l", "o">>
tok1 == <<"t", "o", "k", "1">>
tok2 == <<"t", "o", "k", "2">>
loc_A == <<"A">>
loc_B == <<"B">>
loc_C == <<"C">>
fare_50 == <<"5", "0">>
fare_99 == <<"9", "9">>
name_Sam == <<"S", "a", "m">>
lat_25 == <<"2", "5">>
lon_55 == <<"5", "5">>
pcm == <<"A", "A", "=", "=">>

\* a frame is the outcome of json.loads on it: a dict ("object"), another JSON
\* value ("array"), or a JSONDecodeError ("malformed")
Frame(kind, data) == [kind |-> kind, data |-> data]
MalformedFrame == Frame("malformed", None)
ArrayFrame == Frame("array", None)

\* first frames of a voice connection
AuthFrames ==
    { Frame("object", [type |-> str_auth, token |-> tok1, name |-> name_Sam,
                       latitude |-> lat_25, longitude |-> lon_55]),
      Frame("object", [type |-> str_auth, token |-> tok1]),
      Frame("object", [type |-> str_auth, token |-> <<>>]),
      Frame("object", [type |-> str_auth]),
      Frame("object", [text |-> str_hello, token |-> tok1]),
      Frame("object", [type |-> str_hello, token |-> tok1]),
      MalformedFrame,
      ArrayFrame }

\* later frames of a voice connection
VoiceFrames ==
    { Frame("object", [text |-> str_hello]),
      Frame("object", [audio |-> pcm]),
      Frame("object", [type |-> str_hello]),
      MalformedFrame }

\* tool calls the model can issue: id, name, args
Call(id, name, args) == [id |-> id, name |-> name, args |-> args]

FareArgs ==
    { [startLocation |-> loc_A, endLocation |-> loc_B,
       startDate |-> d_24_05_2025, startTime |-> t_3_30_PM],
      [endLocation |-> loc_C],
      [startDate |-> d_2025_05_24],
      [startTime |-> t_15_30] }

BookArgs == { [rideConfirmation |-> TRUE, fare |-> fare_99] }

OtherArgs == { [textQuery |-> loc_C] }

CallKind(name, args) == [name |-> name, args |-> args]

VoiceCallKinds ==
    { CallKind("get_fare_details", a) : a \in FareArgs }
      \cup { CallKind("book_ride", a) : a \in BookArgs }
      \cup { CallKind("search_places", a) : a \in OtherArgs }

CallId(i) == CASE i = 1 -> "call-1" [] i = 2 -> "call-2" [] OTHER -> "call-3"

\* a model event: which parts the LiveServerMessage carries; function_calls
\* holds the calls of its tool call that the loop has taken so far
GeminiMessage(data, itr, otr, tool_call, tc) ==
    [data |-> data, input_transcription |-> itr, output_transcription |-> otr,
     tool_call |-> tool_call, function_calls |-> <<>>, turn_complete |-> tc]

NoMessage == GeminiMessage(FALSE, FALSE, FALSE, FALSE, FALSE)

VoiceMessages ==
    { GeminiMessage(TRUE, FALSE, FALSE, FALSE, FALSE),
      GeminiMessage(FALSE, TRUE, FALSE, FALSE, FALSE),
      GeminiMessage(FALSE, FALSE, TRUE, FALSE, FALSE),
      GeminiMessage(FALSE, FALSE, FALSE, TRUE, FALSE),
      GeminiMessage(FALSE, FALSE, FALSE, FALSE, TRUE) }

\* what call_n8n_webhook does: return the reply's JSON object, or raise
Returned(body) == [raised |-> FALSE, body |-> body]
Raised == [raised |-> TRUE, body |-> [error |-> "HTTPStatusError"]]

WebhookReplies ==
    { Returned([fare |-> fare_50]),
      Returned([state |-> [endLocation |-> loc_C]]),
      Returned([status |-> "BOOKING_CONFIRMED"]) }

WebhookOutcomes == WebhookReplies \cup { Raised }

-----------------------------------------------------------------------------
(* What the gateways write: frames to the client, calls on the model       *)
(* session, the webhook payload, FunctionResponses.                        *)

AuthStatus(sid) == [type |-> "auth_status", status |-> "success", session_id |-> sid]
Error(text, sid) == [error |-> text, session_id |-> sid]
AudioChunk(sid) == [type |-> "audio_chunk", session_id |-> sid]
TranscriptionChunk(sid) == [type |-> "chunk", chunk |-> "transcription_chunk", session_id |-> sid]
ResponseChunk(sid) == [type |-> "chunk", chunk |-> "response_chunk", session_id |-> sid]
Final(sid) == [type |-> "final", session_id |-> sid]
Confirm == [type |-> "confirm"]

IsError(m) == "error" \in DOMAIN m

SendClientContent(text) == [op |-> "send_client_content", text |-> text]
SendRealtimeInput(audio) == [op |-> "send_realtime_input", audio |-> audio]
\* the batch is recorded by the id and name of each FunctionResponse
SendToolResponse(resps) ==
    [op |-> "send_tool_response",
     function_responses |-> [i \in 1..Len(resps) |-> [id |-> resps[i].id, name |-> resps[i].name]]]

FunctionResponse(fc, response) == [id |-> fc.id, name |-> fc.name, response |-> response]

\* close frames: the one of websocket.close() and of a returning handler, and
\* fc.py 261: websocket.close(code=1000, reason="Inactivity timeout")
NoClose == [code |-> 0, reason |-> "none"]
NormalClosure == [code |-> 1000, reason |-> ""]
InactivityClose == [code |-> 1000, reason |-> "Inactivity timeout"]

\* fc.py 108: asyncio.timeout(600), in clock ticks of 300 seconds
Window == 2

NoPayload == [session_id |-> "none"]
NoOutcome == [raised |-> FALSE, body |-> [none |-> "none"]]
NoState == [none |-> "none"]

\* main.py 237 and 254: n8n_payload
main_Payload(sid, st) ==
    [session_id |-> sid, state |-> st,
     headers |-> [authorization |-> Get(st, "authorization_token", <<>>)]]

-----------------------------------------------------------------------------
(* The voice gateway, src/main.py.                                         *)

main_InitialState ==
    [startLocation |-> None, endLocation |-> None, startDate |-> None,
     startTime |-> None, rideConfirmation |-> FALSE, authorization_token |-> None]

\* a mutant of the handshake test: a token key is enough, be it empty
main_AuthAcceptedAnyToken(auth_data) ==
    /\ Get(auth_data, "type", None) = str_auth
    /\ "token" \in DOMAIN auth_data

\* main.py 115: auth_data.get("type") == "auth" and auth_data.get("token")
main_AuthAccepted(auth_data) ==
    /\ Get(auth_data, "type", None) = str_auth
    /\ Truthy(Get(auth_data, "token", None))

\* main.py 116-123: the caller context captured into state
main_AuthState(st, auth_data) ==
    LET lat == Get(auth_data, "latitude", Unknown)
        lon == Get(auth_data, "longitude", Unknown)
    IN  Update(st, [authorization_token |-> auth_data["token"],
                    user_name |-> Get(auth_data, "name", Unknown),
                    latitude |-> lat,
                    longitude |-> lon,
                    address |-> IF lat # Unknown /\ lon # Unknown
                                THEN PalmJumeirah ELSE UnknownLocation])

\* main.py 111-132 and 324-329: the first frame.  A frame that is no JSON, or no
\* JSON object, raises in the try block; the outer except reports it and the
\* handler returns, upon which the server closes the connection.
main_Auth(frame) ==
    /\ gateway = "voice" /\ pc = "recv_auth" /\ socket = "open"
    /\ message' = frame
    /\ IF frame.kind = "object" /\ main_AuthAccepted(frame.data)
       THEN /\ state' = main_AuthState(state, frame.data)
            /\ sent' = << AuthStatus(session_id) >>
            /\ pc' = "connect"
            /\ socket' = socket
       ELSE /\ state' = state
            /\ sent' = << Error(IF frame.kind = "object"
                                THEN "Authentication required as first message."
                                ELSE IF frame.kind = "malformed" THEN "JSONDecodeError"
                                ELSE "AttributeError", session_id) >>
            /\ pc' = "done"
            /\ socket' = "closed"
    /\ to_session' = <<>>
    /\ UNCHANGED <<gateway, g2c, c2g, session, session_id, gemini_message,
                   function_responses, n8n_payload, webhook_outcome, state_before, booking_confirmed,
                   full_response_text, transcription, fare_returned, reply_fares, n_events, n_frames, n_calls>>
    /\ idle' = 0
    /\ close_frame' = IF frame.kind = "object" /\ main_AuthAccepted(frame.data)
                      THEN close_frame ELSE NormalClosure
    /\ UNCHANGED <<elapsed, waVars, auxVars>>
    /\ turn_complete' = FALSE

\* main.py 112 and 324-329: the client left before a first frame; recv raises
\* ConnectionClosed, and so does the send of the outer except
main_AuthClosed ==
    /\ gateway = "voice" /\ pc = "recv_auth" /\ socket = "client_closed"
    /\ pc' = "done"
    /\ sent' = <<>> /\ to_session' = <<>>
    /\ UNCHANGED <<gateway, g2c, c2g, socket, session, session_id, state, message,
                   gemini_message, function_responses, n8n_payload, webhook_outcome, state_before,
                   booking_confirmed, full_response_text, transcription, fare_returned,
                   reply_fares, n_events, n_frames, n_calls>>
    /\ UNCHANGED <<elapsed, idle, close_frame, waVars, auxVars>>
    /\ turn_complete' = FALSE

\* main.py 196: client.aio.live.connect opens the model session and the two
\* relay tasks start (main.py 320)
main_Connect ==
    /\ gateway = "voice" /\ pc = "connect"
    /\ session' = "open"
    /\ pc' = "relay" /\ g2c' = "receive" /\ c2g' = "recv"
    /\ sent' = <<>> /\ to_session' = <<>>
    /\ UNCHANGED <<gateway, socket, session_id, state, message, gemini_message,
                   function_responses, n8n_payload, webhook_outcome, state_before, booking_confirmed,
                   full_response_text, transcription, fare_returned, reply_fares, n_events, n_frames, n_calls>>
    /\ UNCHANGED <<elapsed, idle, close_frame, waVars, auxVars>>
    /\ turn_complete' = FALSE

\* the client closes the connection (seen by the gateway as ConnectionClosed,
\* main.py 284 and 313, fc.py 262)
ClientDisconnect ==
    /\ socket = "open" /\ pc # "done"
    /\ socket' = "client_closed"
    /\ sent' = <<>> /\ to_session' = <<>>
    /\ UNCHANGED <<gateway, pc, g2c, c2g, session, session_id, state, message,
                   gemini_message, function_responses, n8n_payload, webhook_outcome, state_before,
                   booking_confirmed, full_response_text, transcription, fare_returned,
                   reply_fares, n_events, n_frames, n_calls>>
    /\ UNCHANGED <<elapsed, idle, close_frame, waVars, auxVars>>
    /\ turn_complete' = FALSE

\* main.py 292-317: client_to_gemini reads one frame.  Whatever raises in the
\* loop body ends the loop: the except clause reports it and the task returns.
main_ClientFrame(frame) ==
    /\ gateway = "voice" /\ pc = "relay" /\ c2g = "recv" /\ socket = "open"
    /\ n_frames < MaxFrames
    /\ n_frames' = n_frames + 1
    /\ message' = frame
    /\ IF frame.kind # "object"
       THEN /\ sent' = << Error(IF frame.kind = "malformed" THEN "JSONDecodeError"
                                ELSE "AttributeError", session_id) >>
            /\ to_session' = <<>>
            /\ c2g' = "done"
       ELSE LET user_input == Get(frame.data, "text", None)
                audio_input == Get(frame.data, "audio", None)
            IN  /\ to_session' =
                     IF Truthy(user_input) THEN << SendClientContent(user_input) >>
                     ELSE IF Truthy(audio_input) THEN << SendRealtimeInput(audio_input) >>
                     ELSE <<>>
                /\ sent' = <<>>
                /\ c2g' = "recv"
    /\ UNCHANGED <<gateway, pc, g2c, socket, session, session_id, state,
                   gemini_message, function_responses, n8n_payload, webhook_outcome, state_before,
                   booking_confirmed, full_response_text, transcription, fare_returned,
                   reply_fares, n_events, n_calls>>
    /\ idle' = 0
    /\ UNCHANGED <<elapsed, close_frame, waVars, auxVars>>
    /\ turn_complete' = FALSE

\* main.py 294 and 313-314: the iteration over the websocket ends once the
\* client has closed it
main_ClientClosed ==
    /\ gateway = "voice" /\ pc = "relay" /\ c2g = "recv" /\ socket = "client_closed"
    /\ c2g' = "done"
    /\ sent' = <<>> /\ to_session' = <<>>
    /\ UNCHANGED <<gateway, pc, g2c, socket, session, session_id, state, message,
                   gemini_message, function_responses, n8n_payload, webhook_outcome, state_before,
                   booking_confirmed, full_response_text, transcription, fare_returned,
                   reply_fares, n_events, n_frames, n_calls>>
    /\ UNCHANGED <<elapsed, idle, close_frame, waVars, auxVars>>
    /\ turn_complete' = FALSE

\* main.py 232-235: the FunctionResponse of a call whose date or time does not parse
main_InvalidResponse(fc) == FunctionResponse(fc, [error |-> "Invalid date/time format"])

\* a mutant of the except clause: the failed call is dropped without a response
main_OnExceptionNoResponse(fc, resps) == resps

\* main.py 264-266: except Exception around one function call
main_OnException(fc, resps) ==
    Append(resps, FunctionResponse(fc, [error |-> "HTTPStatusError"]))

\* main.py 239-244: the fare and the state of a get_fare_details reply
main_FareReply(st, n8n_response) ==
    LET fare == Get(n8n_response, "fare", None)
        st1 == IF Truthy(fare) THEN SetItem(st, "fare", fare) ELSE st
    IN  IF "state" \in DOMAIN n8n_response
        THEN Update(st1, n8n_response["state"]) ELSE st1

\* a mutant of the latch: any booking reply that has a status sets it
main_ConfirmedAnyStatus(n8n_response) == "status" \in DOMAIN n8n_response

\* main.py 256: the reply of a book_ride call confirms the booking
main_Confirmed(n8n_response) ==
    "status" \in DOMAIN n8n_response /\ n8n_response["status"] = "BOOKING_CONFIRMED"

\* the fare values a webhook reply carries
FaresOf(n8n_response) ==
    (IF "fare" \in DOMAIN n8n_response THEN { n8n_response["fare"] } ELSE {})
      \cup (IF "state" \in DOMAIN n8n_response /\ "fare" \in DOMAIN n8n_response["state"]
            THEN { n8n_response["state"]["fare"] } ELSE {})

\* a mutant of the turn-complete handling: the latch is never cleared
main_TurnCompleteKeepsLatch(pre, signal) ==
    IF ~signal
    THEN g2c' = "receive" /\ sent' = pre /\ booking_confirmed' = booking_confirmed
    ELSE IF socket = "open"
    THEN /\ g2c' = "receive"
         /\ sent' = pre \o << Final(session_id) >>
                        \o (IF booking_confirmed THEN << Confirm >> ELSE <<>>)
         /\ booking_confirmed' = booking_confirmed
    ELSE g2c' = "done" /\ sent' = pre /\ booking_confirmed' = booking_confirmed

\* main.py 270-282: the turn-complete signal of an event
main_TurnComplete(pre, signal) ==
    IF ~signal
    THEN g2c' = "receive" /\ sent' = pre /\ booking_confirmed' = booking_confirmed
    ELSE IF socket = "open"
    THEN /\ g2c' = "receive"
         /\ sent' = pre \o << Final(session_id) >>
                        \o (IF booking_confirmed THEN << Confirm >> ELSE <<>>)
         /\ booking_confirmed' = FALSE
    ELSE g2c' = "done" /\ sent' = pre /\ booking_confirmed' = booking_confirmed

\* main.py 202-218: the chunks of one model event forwarded to the client
main_Chunks(ev) ==
    (IF ev.data THEN << AudioChunk(session_id) >> ELSE <<>>)
      \o (IF ev.input_transcription THEN << TranscriptionChunk(session_id) >> ELSE <<>>)
      \o (IF ev.output_transcription THEN << ResponseChunk(session_id) >> ELSE <<>>)

\* a mutant of the receive loop: the next event is taken while the function
\* calls of the last one are still being worked on
main_ReceivingEarly == g2c \in {"receive", "for_fc"}

\* main.py 200-201: the loop is at session.receive(), which it reaches again
\* only after the whole body has run for the event before
main_Receiving == g2c = "receive"

\* main.py 201-222 and 270-282: gemini_to_client takes one event of the model
\* session.  The function calls of an event with a tool call are drawn one by
\* one as the loop reaches them (main_FunctionCall).
main_GeminiMessage(ev) ==
    /\ gateway = "voice" /\ pc = "relay" /\ main_Receiving /\ session = "open"
    /\ n_events < MaxEvents
    /\ ev.tool_call => n_calls < MaxCalls
    /\ n_events' = n_events + 1
    /\ IF main_Chunks(ev) # <<>> /\ socket # "open"
       THEN /\ g2c' = "done"
            /\ sent' = <<>>
            /\ UNCHANGED <<gemini_message, function_responses, booking_confirmed>>
       ELSE IF ev.tool_call
       THEN /\ gemini_message' = ev
            /\ function_responses' = <<>>
            /\ g2c' = "for_fc"
            /\ sent' = main_Chunks(ev)
            /\ booking_confirmed' = booking_confirmed
       ELSE /\ main_TurnComplete(main_Chunks(ev), ev.turn_complete)
            /\ UNCHANGED <<gemini_message, function_responses>>
    /\ to_session' = <<>>
    /\ UNCHANGED <<gateway, pc, c2g, socket, session, session_id, state, message,
                   n8n_payload, webhook_outcome, state_before, full_response_text, transcription, fare_returned, reply_fares,
                   n_frames, n_calls>>
    /\ UNCHANGED <<elapsed, idle, close_frame, waVars, auxVars>>
    /\ turn_complete' = (ev.turn_complete /\ ~ev.tool_call
                          /\ ~(main_Chunks(ev) # <<>> /\ socket # "open"))

\* main.py 223-237 and 251-254: the loop takes the next function call: merge,
\* validate, and post the webhook call (get_fare_details, book_ride)
main_FunctionCall(kind) ==
    /\ gateway = "voice" /\ pc = "relay" /\ g2c = "for_fc"
    /\ n_calls < MaxCalls
    /\ n_calls' = n_calls + 1
    /\ LET fc == Call(CallId(Len(gemini_message.function_calls) + 1), kind.name, kind.args)
           merged == Update(state, fc.args)
       IN  /\ gemini_message' =
                 [gemini_message EXCEPT !.function_calls = Append(@, fc)]
           /\ IF fc.name = "get_fare_details" /\ ~DateTimeValid(merged)
              THEN /\ state' = merged
                   /\ function_responses' = Append(function_responses, main_InvalidResponse(fc))
                   /\ g2c' = "for_fc"
                   /\ n8n_payload' = n8n_payload
              ELSE IF fc.name \in {"get_fare_details", "book_ride"}
              THEN /\ state' = merged
                   /\ n8n_payload' = main_Payload(session_id, merged)
                   /\ g2c' = "webhook"
                   /\ function_responses' = function_responses
              ELSE /\ g2c' = "for_fc"
                   /\ UNCHANGED <<state, n8n_payload, function_responses>>
    /\ webhook_outcome' = NoOutcome
    /\ state_before' = state
    /\ sent' = <<>> /\ to_session' = <<>>
    /\ UNCHANGED <<gateway, pc, c2g, socket, session, session_id, message,
                   booking_confirmed, full_response_text, transcription,
                   fare_returned, reply_fares, n_events, n_frames>>
    /\ UNCHANGED <<elapsed, idle, close_frame, waVars, auxVars>>
    /\ turn_complete' = FALSE

\* main.py 238-263: call_n8n_webhook returns or raises
main_WebhookReturn(outcome) ==
    /\ gateway = "voice" /\ pc = "relay" /\ g2c = "webhook"
    /\ LET fc == gemini_message.function_calls[Len(gemini_message.function_calls)]
           n8n_response == outcome.body
       IN  /\ state' = IF outcome.raised \/ fc.name # "get_fare_details" THEN state
                       ELSE main_FareReply(state, n8n_response)
           /\ booking_confirmed' =
                 IF ~outcome.raised /\ fc.name = "book_ride" /\ main_Confirmed(n8n_response)
                 THEN TRUE ELSE booking_confirmed
           /\ function_responses' =
                 IF outcome.raised THEN main_OnException(fc, function_responses)
                 ELSE Append(function_responses, FunctionResponse(fc, n8n_response))
           /\ fare_returned' = (fare_returned \/ (~outcome.raised /\ fc.name = "get_fare_details"
                                                  /\ Truthy(Get(n8n_response, "fare", None))))
           /\ reply_fares' = IF outcome.raised THEN reply_fares
                             ELSE reply_fares \cup FaresOf(n8n_response)
    /\ g2c' = "for_fc"
    /\ n8n_payload' = NoPayload
    /\ webhook_outcome' = outcome
    /\ state_before' = state_before
    /\ sent' = <<>> /\ to_session' = <<>>
    /\ UNCHANGED <<gateway, pc, c2g, socket, session, session_id, message,
                   gemini_message, full_response_text, transcription, n_events, n_frames, n_calls>>
    /\ UNCHANGED <<elapsed, idle, close_frame, waVars, auxVars>>
    /\ turn_complete' = FALSE

\* main.py 268-282: the list is through; the responses of the event go to the
\* model session as one batch, then the turn-complete signal is handled
main_SendToolResponse ==
    /\ gateway = "voice" /\ pc = "relay" /\ g2c = "for_fc"
    /\ gemini_message.function_calls # <<>>
    /\ to_session' = << SendToolResponse(function_responses) >>
    /\ main_TurnComplete(<<>>, gemini_message.turn_complete)
    /\ gemini_message' = NoMessage
    /\ function_responses' = <<>>
    /\ webhook_outcome' = NoOutcome
    /\ state_before' = NoState
    /\ UNCHANGED <<gateway, pc, c2g, socket, session, session_id, state, message,
                   n8n_payload, full_response_text, transcription, fare_returned,
                   reply_fares, n_events, n_frames, n_calls>>
    /\ UNCHANGED <<elapsed, idle, close_frame, waVars, auxVars>>
    /\ turn_complete' = gemini_message.turn_complete

\* main.py 320-322: both tasks have returned; the session is left and the
\* handler returns, upon which the server closes the connection
main_Gather ==
    /\ gateway = "voice" /\ pc = "relay" /\ g2c = "done" /\ c2g = "done"
    /\ pc' = "done" /\ session' = "closed" /\ socket' = "closed"
    /\ sent' = <<>> /\ to_session' = <<>>
    /\ UNCHANGED <<gateway, g2c, c2g, session_id, state, message, gemini_message,
                   function_responses, n8n_payload, webhook_outcome, state_before, booking_confirmed,
                   full_response_text, transcription, fare_returned, reply_fares, n_events, n_frames, n_calls>>
    /\ close_frame' = IF socket = "open" THEN NormalClosure ELSE close_frame
    /\ UNCHANGED <<elapsed, idle, waVars, auxVars>>
    /\ turn_complete' = FALSE

\* main.py 196 and 324-329: client.aio.live.connect raises.  The outer except
\* sends the error to the client; ConnectionClosed of that send is caught
\* (328-329).  The handler returns and the server closes the connection.
main_ConnectFailure ==
    /\ gateway = "voice" /\ pc = "connect"
    /\ pc' = "done" /\ socket' = "closed"
    /\ sent' = IF socket = "open" THEN << Error("APIError", session_id) >> ELSE <<>>
    /\ to_session' = <<>>
    /\ close_frame' = IF socket = "open" THEN NormalClosure ELSE close_frame
    /\ UNCHANGED <<gateway, g2c, c2g, session, session_id, state, message, gemini_message,
                   function_responses, n8n_payload, webhook_outcome, state_before, booking_confirmed,
                   full_response_text, transcription, fare_returned, reply_fares, n_events, n_frames, n_calls>>
    /\ UNCHANGED <<elapsed, idle, waVars, auxVars>>
    /\ turn_complete' = FALSE

\* main.py 197-199 and 284-288: something other than ConnectionClosed raises
\* in gemini_to_client, at session.receive(), while a chunk is prepared or at
\* send_tool_response.  The except clause is outside the while loop: it
\* sends the error to the client and the task returns.  With the client gone
\* that send raises ConnectionClosed, which leaves the task and
\* asyncio.gather (320) and ends the handler in the outer except (324-329).
main_RelayFailure ==
    /\ gateway = "voice" /\ pc = "relay" /\ g2c \in {"receive", "for_fc"}
    /\ g2c' = "done"
    /\ to_session' = <<>>
    /\ IF socket = "open"
       THEN /\ sent' = << Error("Exception", session_id) >>
            /\ UNCHANGED <<pc, c2g, session, socket, close_frame>>
       ELSE /\ sent' = <<>>
            /\ pc' = "done" /\ c2g' = "done" /\ session' = "closed" /\ socket' = "closed"
            /\ close_frame' = close_frame
    /\ UNCHANGED <<gateway, session_id, state, message, gemini_message,
                   function_responses, n8n_payload, webhook_outcome, state_before, booking_confirmed,
                   full_response_text, transcription, fare_returned, reply_fares, n_events, n_frames, n_calls>>
    /\ UNCHANGED <<elapsed, idle, waVars, auxVars>>
    /\ turn_complete' = FALSE

-----------------------------------------------------------------------------
(* The text/hybrid gateway, src/fc.py.                                     *)

str_OK == <<"O", "K">>
junk == <<"!">>

\* frames of a hybrid connection
HybridFrames ==
    { Frame("object", [text |-> str_hello, authorization |-> tok1]),
      Frame("object", [text |-> str_hello]),
      Frame("object", [audio |-> pcm, authorization |-> tok2]),
      Frame("object", [audio |-> junk, authorization |-> tok1]),
      Frame("object", [authorization |-> tok1]),
      MalformedFrame }

HybridCallKinds ==
    { CallKind("process_ride_details", a) : a \in FareArgs }
      \cup { CallKind("book_ride", a) : a \in BookArgs }

\* the events of a hybrid turn: reply text, input transcription, a tool call,
\* and the turn-complete signal that ends session.receive()
HybridMessages ==
    { GeminiMessage(TRUE, FALSE, FALSE, FALSE, FALSE),
      GeminiMessage(FALSE, TRUE, FALSE, FALSE, FALSE),
      GeminiMessage(FALSE, FALSE, FALSE, TRUE, FALSE),
      GeminiMessage(FALSE, FALSE, FALSE, FALSE, TRUE) }

fc_InitialState ==
    [startLocation |-> None, endLocation |-> None, startDate |-> None,
     startTime |-> None, selectedSlot |-> None, rideConfirmation |-> FALSE,
     rideRejection |-> FALSE]

\* fc.py 141-145: librosa can load the decoded audio
fc_AudioLoads(audio_input) == audio_input = pcm

\* fc.py 237-242: the end-of-turn reply
Response(text, sid, st, tr) ==
    [response |-> text, session_id |-> sid, state |-> st, transcription |-> tr]

\* fc.py 204-210: n8n_payload (the timestamp is left out)
fc_Payload(sid, st, data) ==
    [message |-> Get(data, "text", None), session_id |-> sid, state |-> st,
     headers |-> [authorization |-> Get(data, "authorization", <<>>)]]

\* fc.py 108-116: the model session is opened under asyncio.timeout(600)
fc_Connect ==
    /\ gateway = "hybrid" /\ pc = "connect"
    /\ session' = "open"
    /\ pc' = "recv"
    /\ sent' = <<>> /\ to_session' = <<>>
    /\ UNCHANGED <<gateway, g2c, c2g, socket, session_id, state, message, gemini_message,
                   function_responses, n8n_payload, webhook_outcome, state_before, booking_confirmed,
                   full_response_text, transcription, fare_returned, reply_fares,
                   n_events, n_frames, n_calls>>
    /\ UNCHANGED <<elapsed, idle, close_frame, waVars, auxVars>>
    /\ turn_complete' = FALSE

\* fc.py 116 and 264-265: client.aio.live.connect raises.  The outer except
\* sends the error to the client; nothing catches the ConnectionClosed that
\* this send raises once the client has closed the socket, so the handler
\* ends by raising.
fc_ConnectFailure ==
    /\ gateway = "hybrid" /\ pc = "connect"
    /\ IF socket = "open"
       THEN /\ sent' = << Error("APIError", session_id) >>
            /\ pc' = "done"
            /\ close_frame' = NormalClosure
       ELSE /\ sent' = <<>>
            /\ pc' = "raised"
            /\ close_frame' = close_frame
    /\ socket' = "closed"
    /\ to_session' = <<>>
    /\ UNCHANGED <<gateway, g2c, c2g, session, session_id, state, message, gemini_message,
                   function_responses, n8n_payload, webhook_outcome, state_before, booking_confirmed,
                   full_response_text, transcription, fare_returned, reply_fares,
                   n_events, n_frames, n_calls>>
    /\ UNCHANGED <<elapsed, idle, waVars, auxVars>>
    /\ turn_complete' = FALSE

\* fc.py 119-156 and 244-258: the error a frame is answered with, "none" when
\* its input goes to the model session
\* a mutant of the input checks: the authorization check is left out
fc_RejectionNoAuthCheck(frame) ==
    IF frame.kind = "malformed" THEN "Invalid JSON format: Please send a valid JSON object"
    ELSE IF frame.kind # "object" THEN "Unexpected error: AttributeError"
    ELSE IF ~Truthy(Get(frame.data, "text", None)) /\ ~Truthy(Get(frame.data, "audio", None))
    THEN "No input received"
    ELSE IF Truthy(Get(frame.data, "audio", None)) /\ ~fc_AudioLoads(frame.data["audio"])
    THEN "Audio processing error"
    ELSE "none"

fc_Rejection(frame) ==
    IF frame.kind = "malformed" THEN "Invalid JSON format: Please send a valid JSON object"
    ELSE IF frame.kind # "object" THEN "Unexpected error: AttributeError"
    ELSE IF ~Truthy(Get(frame.data, "text", None)) /\ ~Truthy(Get(frame.data, "audio", None))
    THEN "No input received"
    ELSE IF ~Truthy(Get(frame.data, "authorization", None))
    THEN "Missing authorization"
    ELSE IF Truthy(Get(frame.data, "audio", None)) /\ ~fc_AudioLoads(frame.data["audio"])
    THEN "Audio processing error"
    ELSE "none"

\* a mutant of the message loop: frames are read while a turn is under way
fc_ReadingDuringTurn == pc \in {"recv", "receive"}

\* fc.py 117: the handler is at `async for message in websocket`, which it
\* reaches again only when the body of the loop has run for the frame before
fc_Reading == pc = "recv"

\* fc.py 117-167: the loop reads one frame; a rejected frame is answered with
\* an error and the loop reads on, any other starts a model turn
fc_Message(frame) ==
    /\ gateway = "hybrid" /\ fc_Reading /\ socket = "open"
    /\ n_frames < MaxFrames
    /\ n_frames' = n_frames + 1
    /\ message' = frame
    /\ IF fc_Rejection(frame) # "none"
       THEN /\ sent' = << Error(fc_Rejection(frame), session_id) >>
            /\ to_session' = <<>>
            /\ pc' = "recv"
            /\ UNCHANGED <<full_response_text, transcription>>
       ELSE LET user_input == Get(frame.data, "text", None)
                audio_input == Get(frame.data, "audio", None)
            IN  /\ to_session' = IF Truthy(audio_input)
                                 THEN << SendRealtimeInput(audio_input) >>
                                 ELSE << SendClientContent(user_input) >>
                /\ sent' = <<>>
                /\ full_response_text' = <<>>
                /\ transcription' = IF Truthy(user_input) THEN user_input ELSE <<>>
                /\ pc' = "receive"
    /\ UNCHANGED <<gateway, g2c, c2g, socket, session, session_id, state, gemini_message,
                   function_responses, n8n_payload, webhook_outcome, state_before, booking_confirmed,
                   fare_returned, reply_fares, n_events, n_calls>>
    /\ idle' = 0
    /\ UNCHANGED <<elapsed, close_frame, waVars, auxVars>>
    /\ turn_complete' = FALSE

\* fc.py 117 and 262-263: the iteration over the websocket ends once the client
\* has closed it; the session is left and the handler returns
fc_ClientClosed ==
    /\ gateway = "hybrid" /\ pc = "recv" /\ socket = "client_closed"
    /\ pc' = "done" /\ session' = "closed" /\ socket' = "closed"
    /\ sent' = <<>> /\ to_session' = <<>>
    /\ UNCHANGED <<gateway, g2c, c2g, session_id, state, message, gemini_message,
                   function_responses, n8n_payload, webhook_outcome, state_before, booking_confirmed,
                   full_response_text, transcription, fare_returned, reply_fares,
                   n_events, n_frames, n_calls>>
    /\ UNCHANGED <<elapsed, idle, close_frame, waVars, auxVars>>
    /\ turn_complete' = FALSE

\* fc.py 168 and 236-242, 254-263: after an event of the turn.  The
\* turn-complete signal ends session.receive(); the reply goes out if there is
\* reply text.  A send on a socket the client has closed raises
\* ConnectionClosed, which ends the handler.
fc_AfterMessage(signal, text) ==
    IF ~signal
    THEN pc' = "receive" /\ sent' = <<>> /\ UNCHANGED <<session, socket>>
    ELSE IF text = <<>>
    THEN pc' = "recv" /\ sent' = <<>> /\ UNCHANGED <<session, socket>>
    ELSE IF socket = "open"
    THEN /\ pc' = "recv"
         /\ sent' = << Response(text, session_id, state', transcription') >>
         /\ UNCHANGED <<session, socket>>
    ELSE pc' = "done" /\ sent' = <<>> /\ session' = "closed" /\ socket' = "closed"

\* fc.py 168-181: one event of the model turn
fc_GeminiMessage(ev) ==
    /\ gateway = "hybrid" /\ pc = "receive"
    /\ n_events < MaxEvents
    /\ ev.tool_call => n_calls < MaxCalls
    /\ n_events' = n_events + 1
    /\ full_response_text' = IF ev.data THEN full_response_text \o str_OK
                             ELSE full_response_text
    /\ transcription' = IF ev.input_transcription THEN transcription \o str_hello
                        ELSE transcription
    /\ state' = state
    /\ IF ev.tool_call
       THEN /\ gemini_message' = ev
            /\ function_responses' = <<>>
            /\ pc' = "for_fc"
            /\ sent' = <<>>
            /\ UNCHANGED <<session, socket>>
       ELSE /\ fc_AfterMessage(ev.turn_complete, full_response_text')
            /\ UNCHANGED <<gemini_message, function_responses>>
    /\ to_session' = <<>>
    /\ UNCHANGED <<gateway, g2c, c2g, session_id, message, n8n_payload, webhook_outcome, state_before,
                   booking_confirmed, fare_returned, reply_fares, n_frames, n_calls>>
    /\ UNCHANGED <<elapsed, idle, close_frame, waVars, auxVars>>
    /\ turn_complete' = (ev.turn_complete /\ ~ev.tool_call)

\* fc.py 195-202: the FunctionResponse of a call whose date or time does not parse
fc_InvalidResponse(fc) == FunctionResponse(fc, [error |-> "Invalid state format"])

\* fc.py 225-231: except Exception around one function call
fc_OnException(fc, resps) ==
    Append(resps, FunctionResponse(fc, [error |-> "HTTPError"]))

\* fc.py 182-212: the loop takes the next function call
fc_FunctionCall(kind) ==
    /\ gateway = "hybrid" /\ pc = "for_fc"
    /\ n_calls < MaxCalls
    /\ n_calls' = n_calls + 1
    /\ LET fc == Call(CallId(Len(gemini_message.function_calls) + 1), kind.name, kind.args)
           merged == Update(state, fc.args)
       IN  /\ gemini_message' =
                 [gemini_message EXCEPT !.function_calls = Append(@, fc)]
           /\ IF fc.name # "process_ride_details"
              THEN /\ pc' = "for_fc"
                   /\ UNCHANGED <<state, n8n_payload, function_responses>>
              ELSE IF ~DateTimeValid(merged)
              THEN /\ state' = merged
                   /\ function_responses' = Append(function_responses, fc_InvalidResponse(fc))
                   /\ pc' = "for_fc"
                   /\ n8n_payload' = n8n_payload
              ELSE /\ state' = merged
                   /\ n8n_payload' = fc_Payload(session_id, merged, message.data)
                   /\ pc' = "webhook"
                   /\ function_responses' = function_responses
    /\ webhook_outcome' = NoOutcome
    /\ state_before' = state
    /\ sent' = <<>> /\ to_session' = <<>>
    /\ UNCHANGED <<gateway, g2c, c2g, socket, session, session_id, message,
                   booking_confirmed, full_response_text, transcription,
                   fare_returned, reply_fares, n_events, n_frames>>
    /\ UNCHANGED <<elapsed, idle, close_frame, waVars, auxVars>>
    /\ turn_complete' = FALSE

\* fc.py 212-231: call_n8n_webhook returns or raises
fc_WebhookReturn(outcome) ==
    /\ gateway = "hybrid" /\ pc = "webhook"
    /\ LET fc == gemini_message.function_calls[Len(gemini_message.function_calls)]
           n8n_response == outcome.body
       IN  /\ state' = IF ~outcome.raised /\ "state" \in DOMAIN n8n_response
                       THEN Update(state, n8n_response["state"]) ELSE state
           /\ function_responses' =
                 IF outcome.raised THEN fc_OnException(fc, function_responses)
                 ELSE Append(function_responses, FunctionResponse(fc, n8n_response))
           /\ fare_returned' = (fare_returned \/ (~outcome.raised
                                                  /\ Truthy(Get(n8n_response, "fare", None))))
           /\ reply_fares' = IF outcome.raised THEN reply_fares
                             ELSE reply_fares \cup FaresOf(n8n_response)
    /\ pc' = "for_fc"
    /\ n8n_payload' = NoPayload
    /\ webhook_outcome' = outcome
    /\ state_before' = state_before
    /\ sent' = <<>> /\ to_session' = <<>>
    /\ UNCHANGED <<gateway, g2c, c2g, socket, session, session_id, message,
                   gemini_message, booking_confirmed, full_response_text,
                   transcription, n_events, n_frames, n_calls>>
    /\ UNCHANGED <<elapsed, idle, close_frame, waVars, auxVars>>
    /\ turn_complete' = FALSE

\* fc.py 233-242: the list is through; the responses of the event go to the
\* model session as one batch
fc_SendToolResponse ==
    /\ gateway = "hybrid" /\ pc = "for_fc"
    /\ gemini_message.function_calls # <<>>
    /\ to_session' = << SendToolResponse(function_responses) >>
    /\ state' = state /\ transcription' = transcription
    /\ fc_AfterMessage(gemini_message.turn_complete, full_response_text)
    /\ gemini_message' = NoMessage
    /\ function_responses' = <<>>
    /\ webhook_outcome' = NoOutcome
    /\ state_before' = NoState
    /\ UNCHANGED <<gateway, g2c, c2g, session_id, message, n8n_payload,
                   booking_confirmed, full_response_text, fare_returned,
                   reply_fares, n_events, n_frames, n_calls>>
    /\ UNCHANGED <<elapsed, idle, close_frame, waVars, auxVars>>
    /\ turn_complete' = gemini_message.turn_complete

\* fc.py 108 and 260-261: the deadline of asyncio.timeout(600) passes; the
\* handler is cancelled where it waits, the model session is left, and the
\* except clause closes the websocket
fc_Timeout ==
    /\ gateway = "hybrid" /\ pc # "done"
    /\ elapsed = Window
    /\ pc' = "done" /\ session' = "closed" /\ socket' = "closed"
    /\ close_frame' = IF socket = "open" THEN InactivityClose ELSE close_frame
    /\ sent' = <<>> /\ to_session' = <<>>
    /\ UNCHANGED <<gateway, g2c, c2g, session_id, state, message, gemini_message,
                   function_responses, n8n_payload, webhook_outcome, state_before,
                   booking_confirmed, full_response_text, transcription,
                   fare_returned, reply_fares, n_events, n_frames, n_calls,
                   elapsed, idle, waVars, auxVars>>
    /\ turn_complete' = FALSE

\* 300 seconds pass on a connection.  The hybrid handler runs under a deadline
\* (fc.py 108) that time does not pass without fc_Timeout; the voice handler
\* has no clock, and its idle time is followed one tick past the window.
Tick ==
    /\ gateway \in {"voice", "hybrid"} /\ pc # "done"
    /\ IF gateway = "hybrid"
       THEN elapsed < Window /\ elapsed' = elapsed + 1
       ELSE idle <= Window /\ elapsed' = elapsed
    /\ idle' = idle + 1
    /\ sent' = <<>> /\ to_session' = <<>>
    /\ UNCHANGED <<gateway, pc, g2c, c2g, socket, session, session_id, state, message,
                   gemini_message, function_responses, n8n_payload, webhook_outcome,
                   state_before, booking_confirmed, full_response_text, transcription,
                   fare_returned, reply_fares, n_events, n_frames, n_calls,
                   close_frame, waVars, auxVars>>
    /\ turn_complete' = FALSE

-----------------------------------------------------------------------------
(* The WhatsApp channel adapter and its thread store, src/wa.py.           *)

\* a module global that no statement has bound yet: wa.py declares
\* current_state global in generate_response and never assigns it at module
\* level, so it is bound only if the importing application binds it
Undefined == <<"undefined">>

WaIds == {"w1", "w2"}
Workers == {1, 2}

MaxNow == 7
MaxHistory == 3

\* wa.py 223: timedelta(minutes=5); one tick of `now` is one minute
TTL == 5

str_enquiry == <<"e", "n", "q", "u", "i", "r", "y">>
str_booking == <<"b", "o", "o", "k", "i", "n", "g">>
str_complains == <<"c", "o", "m", "p", "l", "a", "i", "n", "s", " ", "a", "n", "d", " ",
                   "f", "e", "e", "d", "b", "a", "c", "k", "s">>
str_confirm == <<"c", "o", "n", "f", "i", "r", "m">>

\* wa.py 254: list
Greetings ==
    { str_hello, <<"h", "i", "i">>, <<"H", "I">>, <<"H", "E", "L", "L", "O">>,
      <<"h", "i">>, <<"H", "e", "l", "l", "o">>, <<"H", "i">>, <<"H", "i", "i">> }

\* the messages the adapter is called with
Bodies ==
    { <<"H", "i">>, <<"h", "E", "L", "L", "O">>, <<"g", "o">>,
      <<"C", "o", "n", "f", "i", "r", "m">> }

\* str.lower() of one character
LowerChar(c) ==
    CASE c = "A" -> "a" [] c = "B" -> "b" [] c = "C" -> "c" [] c = "D" -> "d"
      [] c = "E" -> "e" [] c = "F" -> "f" [] c = "G" -> "g" [] c = "H" -> "h"
      [] c = "I" -> "i" [] c = "J" -> "j" [] c = "K" -> "k" [] c = "L" -> "l"
      [] c = "M" -> "m" [] c = "N" -> "n" [] c = "O" -> "o" [] c = "P" -> "p"
      [] c = "Q" -> "q" [] c = "R" -> "r" [] c = "S" -> "s" [] c = "T" -> "t"
      [] c = "U" -> "u" [] c = "V" -> "v" [] c = "W" -> "w" [] c = "X" -> "x"
      [] c = "Y" -> "y" [] c = "Z" -> "z" [] OTHER -> c

\* wa.py 256: message_body.lower()
Lower(s) == [i \in 1..Len(s) |-> LowerChar(s[i])]

\* wa.py 290-296: sub in s
Contains(s, sub) ==
    \E i \in 1..(Len(s) - Len(sub) + 1) : SubSeq(s, i, i + Len(sub) - 1) = sub

\* wa.py 269-272 and 304-307, 314-317: the turns appended to history; the
\* user's part is a string, written [str |-> s], the model's an object
UserTurn(message_body) == [role |-> "user", parts |-> << [str |-> message_body] >>]
ModelTurn(text) == [role |-> "model", parts |-> << [text |-> text] >>]

\* wa.py 301: the text that stands for a reply without text (the response
\* object has no tool_invocation attribute, so the name is "unknown")
Placeholder == <<"<Invoked unknown>">>
\* wa.py 311
Called(name) == <<"<Called ">> \o name \o <<">">>

\* what chat.send_message returns: the reply's text and its function call
ModelReply(text, function_call) == [text |-> text, function_call |-> function_call]
ModelReplies ==
    { ModelReply(str_OK, None), ModelReply(<<>>, None),
      ModelReply(None, <<"get_fare_details">>) }

RECURSIVE Dumps(_)
\* wa.py 190: json.dumps(history), the text as the run of its tokens: each turn
\* gives its role, the kind of its part (a string or an object) and the text
Dumps(history) ==
    IF history = <<>> THEN <<>>
    ELSE LET turn == Head(history)
         IN  (IF turn.role = "user"
              THEN << turn.role, "str", turn.parts[1].str >>
              ELSE << turn.role, "obj", turn.parts[1].text >>)
             \o Dumps(Tail(history))

RECURSIVE Loads(_)
\* wa.py 221: json.loads(history_json)
Loads(history_json) ==
    IF Len(history_json) < 3 THEN <<>>
    ELSE << [role |-> history_json[1],
             parts |-> IF history_json[2] = "str"
                       THEN << [str |-> history_json[3]] >>
                       ELSE << [text |-> history_json[3]] >>] >>
         \o Loads(SubSeq(history_json, 4, Len(history_json)))

DigitChar(n) ==
    CASE n = 0 -> "0" [] n = 1 -> "1" [] n = 2 -> "2" [] n = 3 -> "3"
      [] n = 4 -> "4" [] n = 5 -> "5" [] n = 6 -> "6" [] n = 7 -> "7"
      [] n = 8 -> "8" [] n = 9 -> "9"

\* wa.py 187: datetime.isoformat(), here the minutes as two digits
IsoFormat(t) == << DigitChar(t \div 10), DigitChar(t % 10) >>
\* wa.py 218: datetime.fromisoformat
FromIsoFormat(s) == IntOf(s)

\* a mutant of the upsert: a plain INSERT that keeps the old row
PlainInsert(t, row) == t \cup {row}

\* wa.py 194-201: INSERT ... ON CONFLICT(wa_id) DO UPDATE on the table whose
\* primary key is wa_id (165-176)
Upsert(t, row) == {r \in t : r.wa_id # row.wa_id} \cup {row}

\* a mutant of store_thread: a row that is there is left as it is
store_threadFirstWins(t, wa_id, history, label, clock) ==
    IF \E r \in t : r.wa_id = wa_id THEN t
    ELSE t \cup {[wa_id |-> wa_id, history |-> Dumps(history),
                  current_state |-> label, timestamp |-> IsoFormat(clock)]}

\* wa.py 185-203: the table after store_thread at time clock
store_thread(t, wa_id, history, label, clock) ==
    Upsert(t, [wa_id |-> wa_id, history |-> Dumps(history),
               current_state |-> label, timestamp |-> IsoFormat(clock)])

\* a mutant of the delete: the row stays
KeepThread(t, wa_id) == t

\* wa.py 234-240: the table after delete_thread_history
delete_thread_history(t, wa_id) == {r \in t : r.wa_id # wa_id}

\* cursor.fetchone() without a row
NoRow == [wa_id |-> "none"]

\* wa.py 213-214: the row SELECT ... WHERE wa_id = ? fetches
RowOf(t, wa_id) ==
    IF \E r \in t : r.wa_id = wa_id THEN CHOOSE r \in t : r.wa_id = wa_id ELSE NoRow

\* a mutant of the age test: a row is stale after two minutes
StaleAfterTwo(row, clock) == clock - FromIsoFormat(row.timestamp) > 2

\* wa.py 223: the row is older than five minutes
Stale(row, clock) == clock - FromIsoFormat(row.timestamp) > TTL

\* a mutant of the look-up: reading a fresh row stamps it with the time of
\* the read
check_if_thread_existsTouching(t, wa_id, clock) ==
    LET row == RowOf(t, wa_id)
    IN  IF row = NoRow
        THEN [history |-> None, current_state |-> None, threads |-> t, row |-> row]
        ELSE IF Stale(row, clock)
        THEN [history |-> None, current_state |-> None,
              threads |-> delete_thread_history(t, wa_id), row |-> row]
        ELSE [history |-> Loads(row.history), current_state |-> row.current_state,
              threads |-> Upsert(t, [row EXCEPT !.timestamp = IsoFormat(clock)]),
              row |-> row]

\* wa.py 207-232: what check_if_thread_exists returns at time clock, and the
\* table it leaves
check_if_thread_exists(t, wa_id, clock) ==
    LET row == RowOf(t, wa_id)
    IN  IF row = NoRow
        THEN [history |-> None, current_state |-> None, threads |-> t, row |-> row]
        ELSE IF Stale(row, clock)
        THEN [history |-> None, current_state |-> None,
              threads |-> delete_thread_history(t, wa_id), row |-> row]
        ELSE [history |-> Loads(row.history), current_state |-> row.current_state,
              threads |-> t, row |-> row]

\* the outbound greeting of wa.py 259; send_wati_sms_greet is not defined in
\* src/wa.py
send_wati_sms_greet(wa_id, name) == [to |-> wa_id, name |-> name]

\* wa.py 16: the global USER_PHONE when the module is imported
USER_PHONE == ""

\* wa.py 252-253: the value every call of generate_response gives the global
generate_response_USER_PHONE == "971544027717"

\* wa.py 36: the bearer token of every payload
BearerToken == <<"Bearer eyJhbGciOiJIUzI1NiIs">>

\* wa.py 26-38: payload; session_id is str(USER_PHONE)
wa_Payload(ride_data, phone) ==
    [session_id |-> phone,
     state |-> [startLocation |-> Get(ride_data, "startLocation", <<>>),
                endLocation |-> Get(ride_data, "endLocation", <<>>),
                startDate |-> Get(ride_data, "startDate", <<>>),
                startTime |-> Get(ride_data, "startTime", <<>>),
                rideConfirmation |-> Get(ride_data, "rideConfirmation", FALSE)],
     headers |-> [authorization |-> BearerToken]]

NoGreeting == [to |-> "none", name |-> None]

\* one invocation of generate_response: where it is (pc: "idle", "lookup",
\* "turn", "returned", "raised"), its arguments and locals, its result, and
\* as history the sender's row it found in the table, the history it read
\* from the store, whether it called the model, whether it wrote the store
\* and the greeting it sent
Invocation(at, wa_id, message_body, history, result) ==
    [pc |-> at, wa_id |-> wa_id, message_body |-> message_body,
     history |-> history, result |-> result, row |-> NoRow, read |-> None,
     invoked |-> FALSE, wrote |-> FALSE, greeting |-> NoGreeting,
     posted |-> NoPayload]

NoInvocation == Invocation("idle", "none", <<>>, <<>>, None)

IsGreeting(message_body) == Lower(message_body) \in Greetings

\* the stored history of the sender is short enough for another turn
Short(wa_id) ==
    \A r \in threads : r.wa_id = wa_id => Len(Loads(r.history)) < MaxHistory

\* wa.py 244-260: generate_response is called; print(current_state) raises
\* NameError while the global is unbound, a greeting deletes the thread, sends
\* the greeting and returns ""
wa_Call(w, message_body, wa_id) ==
    /\ gateway = "whatsapp"
    /\ inv[w].pc \in {"idle", "returned", "raised"}
    /\ IsGreeting(message_body) \/ Short(wa_id)
    /\ IF current_state = Undefined
       THEN /\ inv' = [inv EXCEPT ![w] =
                         Invocation("raised", wa_id, message_body, <<>>, <<"NameError">>)]
            /\ threads' = threads
       ELSE IF IsGreeting(message_body)
       THEN /\ threads' = delete_thread_history(threads, wa_id)
            /\ inv' = [inv EXCEPT ![w] =
                         [Invocation("returned", wa_id, message_body, <<>>, <<>>)
                            EXCEPT !.row = RowOf(threads, wa_id),
                                   !.greeting = send_wati_sms_greet(wa_id, name_Sam)]]
       ELSE /\ inv' = [inv EXCEPT ![w] =
                         Invocation("lookup", wa_id, message_body, <<>>, None)]
            /\ threads' = threads
    /\ UNCHANGED <<auxVars, gatewayVars, now, current_state>>

\* wa.py 262-276: the thread is looked up, the global current_state is set
\* from it, the user's turn is appended and the chat is started;
\* model.start_chat raises AttributeError when the object bound to model has no
\* such method
wa_Lookup(w, chat_started) ==
    /\ gateway = "whatsapp"
    /\ inv[w].pc = "lookup"
    /\ LET found == check_if_thread_exists(threads, inv[w].wa_id, now)
           history == (IF found.history = None THEN <<>> ELSE found.history)
                        \o << UserTurn(inv[w].message_body) >>
       IN  /\ threads' = found.threads
           /\ current_state' = found.current_state
           /\ inv' = [inv EXCEPT ![w] =
                        [@ EXCEPT !.pc = IF chat_started THEN "turn" ELSE "raised",
                                  !.history = history,
                                  !.row = found.row,
                                  !.read = found.history,
                                  !.result = IF chat_started THEN None
                                             ELSE <<"AttributeError">>]]
    /\ UNCHANGED <<auxVars, gatewayVars, now>>

\* wa.py 290-297: the coarse state the keywords force
KeywordState(message_body_lower, label) ==
    IF \/ Contains(message_body_lower, str_enquiry)
       \/ Contains(message_body_lower, str_booking)
       \/ Contains(message_body_lower, str_complains)
       \/ Contains(message_body_lower, str_confirm)
    THEN str_enquiry ELSE label

\* what the HTTP transport does with a posted request: a success status with
\* a JSON body, a non-success status, or no response at all
HttpOk(body) == [kind |-> "ok", body |-> body]
HttpStatusError == [kind |-> "status", body |-> [none |-> "none"]]
HttpDown == [kind |-> "down", body |-> [none |-> "none"]]

Transports ==
    { HttpOk([fare |-> fare_50]), HttpOk([status |-> "BOOKING_CONFIRMED"]),
      HttpStatusError, HttpDown }

\* an exception of the named class leaves the call
RaisedAs(name) == [raised |-> TRUE, body |-> [error |-> name]]

\* what one call did: the request it posted, NoPayload if none, and how it ended
Posted(request, outcome) == [request |-> request, outcome |-> outcome]

\* wa.py 19-48: the URL is a constant of the function, the payload is built
\* around the ride data with the global USER_PHONE as it is at the call, and
\* the except clause for httpx.RequestError calls
\* logger, a name wa.py never binds
wa_call_n8n_webhook(phone, ride_data, transport) ==
    IF transport.kind = "ok"
    THEN Posted(wa_Payload(ride_data, phone), Returned(transport.body))
    ELSE IF transport.kind = "down"
    THEN Posted(wa_Payload(ride_data, phone), RaisedAs("NameError"))
    ELSE Posted(wa_Payload(ride_data, phone), RaisedAs("HTTPStatusError"))

\* the arguments of a call of get_fare_details
ride_data ==
    [startLocation |-> loc_A, endLocation |-> loc_B,
     startDate |-> d_24_05_2025, startTime |-> t_3_30_PM]

\* the model turn's tool invocation: a function call of the reply goes to
\* call_n8n_webhook (wa.py 19-38), which builds the payload around the
\* global USER_PHONE as generate_response set it
wa_ToolRequest(response) ==
    IF Truthy(response.function_call)
    THEN wa_call_n8n_webhook(generate_response_USER_PHONE, ride_data,
                             HttpOk([fare |-> fare_50])).request
    ELSE NoPayload

\* a mutant of the branch: the model is asked and the thread is stored
\* whatever the coarse state is
wa_AsksModelAlways(label) == TRUE

\* wa.py 298: if current_state is None
wa_AsksModel(label) == label = None

\* wa.py 290-320: the keywords set the global; only while it is None the
\* model is asked, the reply is appended, the thread is stored and
\* response.text is returned; otherwise the function ends without a return
\* statement
wa_Turn(w, response) ==
    /\ gateway = "whatsapp"
    /\ inv[w].pc = "turn"
    /\ LET label == KeywordState(Lower(inv[w].message_body), current_state)
           text_response == IF Truthy(response.text) THEN response.text ELSE Placeholder
           history == inv[w].history \o << ModelTurn(text_response) >>
                        \o (IF Truthy(response.function_call)
                            THEN << ModelTurn(Called(response.function_call)) >>
                            ELSE <<>>)
       IN  /\ current_state' = label
           /\ IF wa_AsksModel(label)
              THEN /\ threads' = store_thread(threads, inv[w].wa_id, history, label, now)
                   /\ inv' = [inv EXCEPT ![w] =
                                [@ EXCEPT !.pc = "returned", !.history = history,
                                          !.row = NoRow,
                                          !.result = response.text,
                                          !.invoked = TRUE, !.wrote = TRUE,
                                          !.posted = wa_ToolRequest(response)]]
              ELSE /\ threads' = threads
                   /\ inv' = [inv EXCEPT ![w] =
                                [@ EXCEPT !.pc = "returned", !.row = NoRow, !.result = None]]
    /\ UNCHANGED <<auxVars, gatewayVars, now>>

\* a minute passes
wa_Tick ==
    /\ gateway = "whatsapp"
    /\ now < MaxNow
    /\ now' = now + 1
    /\ UNCHANGED <<auxVars, gatewayVars, threads, current_state, inv>>

\* wa.py before any call of generate_response, on the empty table that
\* setup_database (165-179) creates
wa_Init ==
    /\ threads = {}
    /\ now = 0
    /\ current_state = Undefined
    /\ inv = [w \in Workers |-> NoInvocation]

-----------------------------------------------------------------------------
(* The webhook client call_n8n_webhook, as config.py, main.py, fc.py and   *)
(* wa.py each define it.                                                   *)

url_n8n == <<"https://n8n/webhook">>

\* config.py 95-108: the URL test, the post, raise_for_status, and the except
\* clause for httpx.RequestError (httpx.HTTPStatusError is not one)
config_call_n8n_webhook(url, data, transport) ==
    IF ~Truthy(url)
    THEN Posted(NoPayload, Returned([error |-> "Webhook URL is not configured."]))
    ELSE IF transport.kind = "ok" THEN Posted(data, Returned(transport.body))
    ELSE IF transport.kind = "down"
    THEN Posted(data, Returned([error |-> "Failed to connect to webhook service"]))
    ELSE Posted(data, RaisedAs("HTTPStatusError"))

\* main.py 60-66: no URL test and no except clause; httpx refuses a URL that
\* is None with TypeError before anything is posted
main_call_n8n_webhook(url, data, transport) ==
    IF ~Truthy(url) THEN Posted(NoPayload, RaisedAs("TypeError"))
    ELSE IF transport.kind = "ok" THEN Posted(data, Returned(transport.body))
    ELSE IF transport.kind = "down" THEN Posted(data, RaisedAs("ConnectError"))
    ELSE Posted(data, RaisedAs("HTTPStatusError"))

\* fc.py 26: N8N_WEBHOOK_URL of the hybrid gateway, given the value of the
\* environment variable: a local default when the variable is not set
fc_N8N_WEBHOOK_URL(env) == IF env = None THEN <<"http://localhost:5678/webhook/chatbot">> ELSE env

\* fc.py 85-90: the same with requests, which refuses an empty URL with
\* MissingSchema
fc_call_n8n_webhook(url, data, transport) ==
    IF ~Truthy(url) THEN Posted(NoPayload, RaisedAs("MissingSchema"))
    ELSE IF transport.kind = "ok" THEN Posted(data, Returned(transport.body))
    ELSE IF transport.kind = "down" THEN Posted(data, RaisedAs("ConnectionError"))
    ELSE Posted(data, RaisedAs("HTTPError"))

\* the modules that define a webhook client
Variants == {"config", "voice", "hybrid", "whatsapp"}

\* the data the client is called with
WebhookData ==
    { main_Payload("s1", main_InitialState),
      main_Payload("s1", Update(main_InitialState, [fare |-> fare_50])),
      fc_Payload("s1", fc_InitialState, [text |-> str_hello, authorization |-> tok1]),
      ride_data }

\* one call: whose client, the value of N8N_WEBHOOK_URL in the environment
\* (None when it is not set), the data, what the
\* transport did, the request posted and the outcome
WebhookCall(variant, url, data, transport, posted) ==
    [variant |-> variant, url |-> url, called |-> TRUE, data |-> data,
     transport |-> transport, request |-> posted.request, outcome |-> posted.outcome]

NoWebhookCall(variant, url) ==
    [variant |-> variant, url |-> url, called |-> FALSE, data |-> NoPayload,
     transport |-> HttpDown, request |-> NoPayload, outcome |-> NoOutcome]

\* call_n8n_webhook(data) of the variant
CallWebhook(data, transport) ==
    /\ gateway = "webhook"
    /\ LET posted ==
             CASE webhook.variant = "config" ->
                    config_call_n8n_webhook(webhook.url, data, transport)
               [] webhook.variant = "voice" ->
                    main_call_n8n_webhook(webhook.url, data, transport)
               [] webhook.variant = "hybrid" ->
                    fc_call_n8n_webhook(fc_N8N_WEBHOOK_URL(webhook.url), data, transport)
               [] OTHER ->
                    wa_call_n8n_webhook(USER_PHONE, data, transport)
       IN  webhook' = WebhookCall(webhook.variant, webhook.url, data, transport, posted)
    /\ UNCHANGED <<gatewayVars, waVars, health, conns>>

NoConns == <<>>

(* The health listener of main.py. *)

MaxRequests == 2

Methods == {"GET", "HEAD", "POST"}
Paths == {<<"/">>, <<"/health">>, <<"/health/">>, <<"/health?probe=1">>}

HttpResponse(status, body) == [status |-> status, body |-> body]

\* main.py 332-334
do_HEAD(path) == HttpResponse(200, <<>>)

\* main.py 336-343: only the path /health is answered with 200 and OK
do_GET(path) ==
    IF path = <<"/health">> THEN HttpResponse(200, str_OK) ELSE HttpResponse(404, <<"Not Found">>)

\* main.py 331: BaseHTTPRequestHandler calls do_<method>, and answers 501
\* for a method the handler does not define
HealthCheckHandler(method, path) ==
    CASE method = "GET" -> do_GET(path)
      [] method = "HEAD" -> do_HEAD(path)
      [] OTHER -> HttpResponse(501, <<"Unsupported method">>)

Exchange(method, path) ==
    [method |-> method, path |-> path, response |-> HealthCheckHandler(method, path)]

\* main.py 346-350: the listener serves one request after the other
health_Request(method, path) ==
    /\ gateway = "health"
    /\ Len(health) < MaxRequests
    /\ health' = Append(health, Exchange(method, path))
    /\ UNCHANGED <<gatewayVars, waVars, webhook, conns>>

(* Several connections of one gateway process.  websockets.serve runs      *)
(* handle_websocket once per connection; session_id and state are locals   *)
(* of each run (main.py 96-105, fc.py 94-104).                             *)

Conns == {1, 2}

\* the ids f"{int(time)}-{uuid4().hex[:8]}" can come out as
ConnSessionIds == {"s1", "s2"}

\* one connection: where its handler is, its session id, its state, the
\* name of the function call under way and the payload posted for it
ClosedConn ==
    [pc |-> "closed", session_id |-> "none", state |-> NoState, fc |-> "none",
     n8n_payload |-> NoPayload]

\* the frame of the hybrid turn under way on a connection
conn_Frame == [text |-> str_hello, authorization |-> tok1]

\* main.py 229 and 251, fc.py 184: the function calls that go to the webhook
conn_Webhooked(kind) ==
    IF gateway = "voice_server" THEN kind.name \in {"get_fare_details", "book_ride"}
    ELSE kind.name = "process_ride_details"

\* main.py 229-235, fc.py 190-202: the call whose merged state is validated
conn_Validated(kind) ==
    IF gateway = "voice_server" THEN kind.name = "get_fare_details"
    ELSE kind.name = "process_ride_details"

\* a mutant of the handlers' state: one dict of the module that every
\* connection updates
conn_SetStateShared(cs, c, st) == [d \in DOMAIN cs |-> [cs[d] EXCEPT !.state = st]]

\* main.py 97 and 226, fc.py 95 and 186: state is a local of the run of
\* handle_websocket that serves connection c
conn_SetState(cs, c, st) == [cs EXCEPT ![c].state = st]

\* main.py 88-106, fc.py 92-105: a connection is accepted; the handler makes
\* its session id and its state
conn_Accept(c, sid) ==
    /\ gateway \in {"voice_server", "hybrid_server"}
    /\ conns[c].pc = "closed"
    /\ conns' = conn_SetState([conns EXCEPT ![c].pc = IF gateway = "voice_server" THEN "auth" ELSE "open",
                                            ![c].session_id = sid],
                              c, IF gateway = "voice_server" THEN main_InitialState
                                 ELSE fc_InitialState)
    /\ UNCHANGED <<gatewayVars, waVars, webhook, health>>

\* main.py 111-123: the first frame of a voice connection is accepted
conn_Auth(c, frame) ==
    /\ gateway = "voice_server"
    /\ conns[c].pc = "auth"
    /\ frame.kind = "object" /\ main_AuthAccepted(frame.data)
    /\ conns' = conn_SetState([conns EXCEPT ![c].pc = "open"], c,
                              main_AuthState(conns[c].state, frame.data))
    /\ UNCHANGED <<gatewayVars, waVars, webhook, health>>

\* main.py 226-237 and 251-254, fc.py 186 and 204-210: a function call is
\* merged into the state and, unless its date or time fails to parse, the
\* payload is built
conn_FunctionCall(c, kind) ==
    /\ gateway \in {"voice_server", "hybrid_server"}
    /\ conns[c].pc = "open"
    /\ conn_Webhooked(kind)
    /\ LET merged == Update(conns[c].state, kind.args)
           cs == conn_SetState(conns, c, merged)
       IN  IF conn_Validated(kind) /\ ~DateTimeValid(merged)
           THEN conns' = cs
           ELSE conns' = [cs EXCEPT ![c].pc = "webhook",
                                    ![c].fc = kind.name,
                                    ![c].n8n_payload =
                                        IF gateway = "voice_server"
                                        THEN main_Payload(cs[c].session_id, cs[c].state)
                                        ELSE fc_Payload(cs[c].session_id, cs[c].state, conn_Frame)]
    /\ UNCHANGED <<gatewayVars, waVars, webhook, health>>

\* main.py 238-244, fc.py 212-214: the webhook reply of the call
conn_WebhookReturn(c, outcome) ==
    /\ gateway \in {"voice_server", "hybrid_server"}
    /\ conns[c].pc = "webhook"
    /\ LET st == conns[c].state
           n8n_response == outcome.body
           after == IF outcome.raised THEN st
                    ELSE IF gateway = "voice_server"
                    THEN (IF conns[c].fc = "get_fare_details"
                          THEN main_FareReply(st, n8n_response) ELSE st)
                    ELSE IF "state" \in DOMAIN n8n_response
                    THEN Update(st, n8n_response["state"]) ELSE st
       IN  conns' = [conn_SetState(conns, c, after) EXCEPT ![c].pc = "open",
                                                          ![c].fc = "none",
                                                          ![c].n8n_payload = NoPayload]
    /\ UNCHANGED <<gatewayVars, waVars, webhook, health>>

\* the handler of connection c returns
conn_Close(c) ==
    /\ gateway \in {"voice_server", "hybrid_server"}
    /\ conns[c].pc = "open"
    /\ conns' = [conns EXCEPT ![c] = ClosedConn]
    /\ UNCHANGED <<gatewayVars, waVars, webhook, health>>

\* no call of the webhook client on its own, no health request, no
\* concurrent connections
aux_Init ==
    /\ webhook = NoWebhookCall("none", None)
    /\ health = <<>>
    /\ conns = NoConns

-----------------------------------------------------------------------------

Init ==
    /\ gateway \in {"voice", "hybrid"}
    /\ pc = IF gateway = "voice" THEN "recv_auth" ELSE "connect"
    /\ g2c = "idle" /\ c2g = "idle"
    /\ socket = "open" /\ session = "none"
    /\ session_id \in SessionIds
    /\ state = IF gateway = "voice" THEN main_InitialState ELSE fc_InitialState
    /\ message = Frame("none", None)
    /\ gemini_message = NoMessage
    /\ function_responses = <<>>
    /\ n8n_payload = NoPayload
    /\ webhook_outcome = NoOutcome
    /\ state_before = NoState
    /\ booking_confirmed = FALSE
    /\ full_response_text = <<>> /\ transcription = <<>>
    /\ sent = <<>> /\ to_session = <<>>
    /\ fare_returned = FALSE /\ reply_fares = {}
    /\ n_events = 0 /\ n_frames = 0 /\ n_calls = 0
    /\ elapsed = 0 /\ idle = 0 /\ close_frame = NoClose
    /\ turn_complete = FALSE
    /\ wa_Init
    /\ aux_Init

\* the steps of a voice connection
NextVoice ==
    \/ \E frame \in AuthFrames : main_Auth(frame)
    \/ main_AuthClosed
    \/ main_Connect
    \/ ClientDisconnect
    \/ \E frame \in VoiceFrames : main_ClientFrame(frame)
    \/ main_ClientClosed
    \/ \E ev \in VoiceMessages : main_GeminiMessage(ev)
    \/ \E kind \in VoiceCallKinds : main_FunctionCall(kind)
    \/ \E outcome \in WebhookOutcomes : main_WebhookReturn(outcome)
    \/ main_SendToolResponse
    \/ main_Gather

\* the steps of a hybrid connection
NextHybrid ==
    \/ ClientDisconnect
    \/ fc_Connect
    \/ \E frame \in HybridFrames : fc_Message(frame)
    \/ fc_ClientClosed
    \/ \E ev \in HybridMessages : fc_GeminiMessage(ev)
    \/ \E kind \in HybridCallKinds : fc_FunctionCall(kind)
    \/ \E outcome \in WebhookOutcomes : fc_WebhookReturn(outcome)
    \/ fc_SendToolResponse

Next == NextVoice \/ NextHybrid

Spec == Init /\ [][Next]_vars

\* the connections of Spec with the clock running
NextTime == Next \/ Tick \/ fc_Timeout

SpecTime == Init /\ [][NextTime]_vars

\* The voice connection under the scheduling the event loop guarantees: a
\* task that can run does run (the reader of a closed websocket, the tool
\* loop, the webhook call that returns or raises, asyncio.gather).  Frames of
\* the client and events of the model session come when they come.
InitVoice == Init /\ gateway = "voice"

main_LoopStep ==
    \/ \E kind \in VoiceCallKinds : main_FunctionCall(kind)
    \/ main_SendToolResponse

SpecLive ==
    /\ InitVoice /\ [][NextVoice]_vars
    /\ WF_vars(main_AuthClosed)
    /\ WF_vars(main_Connect)
    /\ WF_vars(main_ClientClosed)
    /\ WF_vars(main_LoopStep)
    /\ WF_vars(\E outcome \in WebhookOutcomes : main_WebhookReturn(outcome))
    /\ WF_vars(main_Gather)

\* the hybrid connection alone
InitHybrid == Init /\ gateway = "hybrid"

SpecHybrid == InitHybrid /\ [][NextHybrid]_vars

\* the connections of Spec when opening the model session can fail
NextFault == Next \/ main_ConnectFailure \/ fc_ConnectFailure

SpecFault == Init /\ [][NextFault]_vars

\* events of the model session that carry several parts at once: the three
\* chunks with the turn-complete signal, and a chunk with a tool call and the
\* turn-complete signal
RelayMessages ==
    { GeminiMessage(TRUE, TRUE, TRUE, FALSE, TRUE),
      GeminiMessage(FALSE, FALSE, TRUE, TRUE, TRUE),
      GeminiMessage(FALSE, TRUE, FALSE, FALSE, FALSE) }

\* the function calls of those events: a booking or a search
RelayCallKinds == { kind \in VoiceCallKinds : kind.name # "get_fare_details" }

\* the voice connection with those events and with failures of the relay
NextRelay ==
    \/ \E frame \in AuthFrames : main_Auth(frame)
    \/ main_AuthClosed
    \/ main_Connect
    \/ ClientDisconnect
    \/ \E frame \in VoiceFrames : main_ClientFrame(frame)
    \/ main_ClientClosed
    \/ \E ev \in RelayMessages : main_GeminiMessage(ev)
    \/ \E kind \in RelayCallKinds : main_FunctionCall(kind)
    \/ \E outcome \in WebhookOutcomes : main_WebhookReturn(outcome)
    \/ main_SendToolResponse
    \/ main_RelayFailure
    \/ main_Gather

SpecRelay == InitVoice /\ [][NextRelay]_vars

\* function calls and webhook replies that bear on what RideDraftState
\* holds: a fare call that passes validation and one that fails it, a
\* booking, a reply whose state object has an authorization_token of its own,
\* and a booking reply with a status other than BOOKING_CONFIRMED
DraftCallKinds ==
    { CallKind("get_fare_details",
               [startLocation |-> loc_A, endLocation |-> loc_B,
                startDate |-> d_24_05_2025, startTime |-> t_3_30_PM]),
      CallKind("get_fare_details", [startDate |-> d_2025_05_24]),
      CallKind("book_ride", [rideConfirmation |-> TRUE, fare |-> fare_99]) }

DraftOutcomes ==
    { Returned([fare |-> fare_50]),
      Returned([state |-> [authorization_token |-> tok2]]),
      Returned([status |-> "BOOKING_CONFIRMED"]),
      Returned([status |-> "BOOKING_FAILED"]),
      Raised }

\* the voice connection with those calls and replies
NextDraft ==
    \/ \E frame \in AuthFrames : main_Auth(frame)
    \/ main_AuthClosed
    \/ main_Connect
    \/ ClientDisconnect
    \/ \E frame \in VoiceFrames : main_ClientFrame(frame)
    \/ main_ClientClosed
    \/ \E ev \in RelayMessages : main_GeminiMessage(ev)
    \/ \E kind \in DraftCallKinds : main_FunctionCall(kind)
    \/ \E outcome \in DraftOutcomes : main_WebhookReturn(outcome)
    \/ main_SendToolResponse
    \/ main_Gather

SpecDraft == InitVoice /\ [][NextDraft]_vars

\* no connection is being served: the state of a process other than a gateway
GatewayIdle(program) ==
    /\ gateway = program
    /\ pc = "done" /\ g2c = "idle" /\ c2g = "idle"
    /\ socket = "closed" /\ session = "none"
    /\ session_id \in SessionIds
    /\ state = main_InitialState
    /\ message = Frame("none", None)
    /\ gemini_message = NoMessage
    /\ function_responses = <<>>
    /\ n8n_payload = NoPayload
    /\ webhook_outcome = NoOutcome
    /\ state_before = NoState
    /\ booking_confirmed = FALSE
    /\ full_response_text = <<>> /\ transcription = <<>>
    /\ sent = <<>> /\ to_session = <<>>
    /\ fare_returned = FALSE /\ reply_fares = {}
    /\ n_events = 0 /\ n_frames = 0 /\ n_calls = 0
    /\ elapsed = 0 /\ idle = 0 /\ close_frame = NoClose
    /\ turn_complete = FALSE

\* the adapter's process: no gateway connection; the importing application
\* may have bound the global current_state to None
InitWa ==
    /\ GatewayIdle("whatsapp")
    /\ threads = {} /\ now = 0
    /\ current_state \in {Undefined, None}
    /\ inv = [w \in Workers |-> NoInvocation]
    /\ aux_Init

\* generate_response is called for one message at a time
NextWa ==
    \/ \E message_body \in Bodies, wa_id \in WaIds : wa_Call(1, message_body, wa_id)
    \/ \E chat_started \in BOOLEAN : wa_Lookup(1, chat_started)
    \/ \E response \in ModelReplies : wa_Turn(1, response)
    \/ wa_Tick

SpecWa == InitWa /\ [][NextWa]_vars

\* the messages of one sender that come close together
RaceBodies == { <<"g", "o">>, <<"t", "o">> }

\* generate_response is called for two messages at a time, each call on a
\* thread of its own; the calls interleave between the statements that touch
\* the table
NextRace ==
    \E w \in Workers :
        \/ \E message_body \in RaceBodies : wa_Call(w, message_body, "w1")
        \/ \E chat_started \in BOOLEAN : wa_Lookup(w, chat_started)
        \/ \E response \in ModelReplies : wa_Turn(w, response)

SpecRace == InitWa /\ [][NextRace]_vars

\* a gateway process that serves the connections of Conns, none accepted yet
InitConns ==
    /\ \E g \in {"voice_server", "hybrid_server"} : GatewayIdle(g)
    /\ wa_Init
    /\ webhook = NoWebhookCall("none", None)
    /\ health = <<>>
    /\ conns = [c \in Conns |-> ClosedConn]

\* the handlers interleave at every await
NextConns ==
    \E c \in Conns :
        \/ \E sid \in ConnSessionIds : conn_Accept(c, sid)
        \/ \E frame \in AuthFrames : conn_Auth(c, frame)
        \/ \E kind \in VoiceCallKinds \cup HybridCallKinds : conn_FunctionCall(c, kind)
        \/ \E outcome \in WebhookOutcomes : conn_WebhookReturn(c, outcome)
        \/ conn_Close(c)

SpecConns == InitConns /\ [][NextConns]_vars

\* a process that only calls the webhook client of one of the modules, with
\* N8N_WEBHOOK_URL set or not
InitWebhook ==
    /\ GatewayIdle("webhook")
    /\ wa_Init
    /\ \E variant \in Variants, url \in {None, url_n8n} :
          webhook = NoWebhookCall(variant, url)
    /\ health = <<>>
    /\ conns = NoConns

NextWebhook == \E data \in WebhookData, transport \in Transports : CallWebhook(data, transport)

SpecWebhook == InitWebhook /\ [][NextWebhook]_vars

\* the health listener of the voice gateway's process, before any request
InitHealth ==
    /\ GatewayIdle("health")
    /\ wa_Init
    /\ aux_Init

NextHealth == \E method \in Methods, path \in Paths : health_Request(method, path)

SpecHealth == InitHealth /\ [][NextHealth]_vars

-----------------------------------------------------------------------------
(* The validation of main.py 229-235 and fc.py 190-202 over candidate      *)
(* dates and times: the tool loop of either gateway, about to take the     *)
(* function calls of a tool-call event, is handed fare calls whose         *)
(* startDate and startTime range over the candidates.                      *)

DateCandidates ==
    { <<>>, d_24_05_2025, d_2025_05_24, d_1_5_2025, d_31_02_2025, d_29_02_2024,
      d_29_02_2025, d_29_02_1900, d_24_05_25, d_slash, d_00_05_2025,
      d_24_13_2025, d_24_05_20255 }

TimeCandidates ==
    { <<>>, t_3_30_PM, t_15_30, t_03_30_PM, t_3_5_PM, t_3_30_pm, t_3_30PM,
      t_0_30_PM, t_13_30_PM, t_12_60_AM, t_12_00_AM, t_9_00_AM }

ValidateKinds(name) ==
    { CallKind(name, [startDate |-> d, startTime |-> t]) :
         d \in DateCandidates, t \in TimeCandidates }

\* the state of Spec after the handshake (voice) or a text frame (hybrid), the
\* opening of the model session and the arrival of a tool-call event
InitValidate ==
    /\ gateway \in {"voice", "hybrid"}
    /\ pc = IF gateway = "voice" THEN "relay" ELSE "for_fc"
    /\ g2c = IF gateway = "voice" THEN "for_fc" ELSE "idle"
    /\ c2g = IF gateway = "voice" THEN "recv" ELSE "idle"
    /\ socket = "open" /\ session = "open"
    /\ session_id \in SessionIds
    /\ message = IF gateway = "voice"
                 THEN Frame("object", [type |-> str_auth, token |-> tok1])
                 ELSE Frame("object", [text |-> str_hello, authorization |-> tok1])
    /\ state = IF gateway = "voice"
               THEN main_AuthState(main_InitialState, [type |-> str_auth, token |-> tok1])
               ELSE fc_InitialState
    /\ gemini_message = GeminiMessage(FALSE, FALSE, FALSE, TRUE, FALSE)
    /\ function_responses = <<>>
    /\ n8n_payload = NoPayload
    /\ webhook_outcome = NoOutcome
    /\ state_before = NoState
    /\ booking_confirmed = FALSE
    /\ full_response_text = <<>>
    /\ transcription = IF gateway = "voice" THEN <<>> ELSE str_hello
    /\ sent = <<>> /\ to_session = <<>>
    /\ fare_returned = FALSE /\ reply_fares = {}
    /\ n_events = 1
    /\ n_frames = IF gateway = "voice" THEN 0 ELSE 1
    /\ n_calls = 0
    /\ elapsed = 0 /\ idle = 0 /\ close_frame = NoClose
    /\ turn_complete = FALSE
    /\ wa_Init
    /\ aux_Init

NextValidate ==
    \/ \E kind \in ValidateKinds("get_fare_details") : main_FunctionCall(kind)
    \/ \E kind \in ValidateKinds("process_ride_details") : fc_FunctionCall(kind)

SpecValidate == InitValidate /\ [][NextValidate]_vars

-----------------------------------------------------------------------------
(* Readers of the state used by the properties below.                      *)

\* the function call the tool loop is at: the last one it took
LastCall == gemini_message.function_calls[Len(gemini_message.function_calls)]

\* the tool loop waits for call_n8n_webhook
AtWebhook == IF gateway = "voice" THEN pc = "relay" /\ g2c = "webhook" ELSE pc = "webhook"

\* the tool loop is between two function calls
AtForFc == IF gateway = "voice" THEN pc = "relay" /\ g2c = "for_fc" ELSE pc = "for_fc"

\* the value of RideDraftState.fare, None when the key is absent
FareOf(st) == Get(st, "fare", None)

\* a step in which the tool loop takes a function call
TakesCall == n_calls' = n_calls + 1

\* a step in which call_n8n_webhook returns or raises
WebhookReturns == AtWebhook /\ webhook_outcome' # webhook_outcome

-----------------------------------------------------------------------------
(* The claims.                                                             *)

\* C1: in the voice gateway a book_ride call is forwarded to the webhook only
\* if an earlier get_fare_details call of the session returned a fare.
C1_BookRideOnlyAfterFare ==
    (gateway = "voice" /\ AtWebhook /\ LastCall.name = "book_ride") => fare_returned

\* C2: in the voice gateway RideDraftState.fare is absent or a value that a
\* webhook reply of the connection carried.
C2_FareOnlyFromReply ==
    (gateway = "voice" /\ "fare" \in DOMAIN state) => state["fare"] \in reply_fares

\* the first frame is a JSON object with type "auth" and a non-empty token
FirstFrameOK(m) ==
    /\ m.kind = "object"
    /\ "type" \in DOMAIN m.data /\ m.data["type"] = <<"a", "u", "t", "h">>
    /\ "token" \in DOMAIN m.data /\ m.data["token"] # <<>> /\ m.data["token"] # None

\* the first frame of the voice connection has been read and nothing after it
FirstFrameRead == gateway = "voice" /\ n_frames = 0 /\ message.kind # "none"

\* C3: in the voice gateway a first frame that is not a JSON object with type
\* "auth" and a non-empty token is answered with an error, the socket is
\* closed, no model session is opened and no webhook call is made.
C3_BadFirstFrameRejected ==
    (FirstFrameRead /\ ~FirstFrameOK(message)) =>
        /\ pc = "done" /\ socket = "closed"
        /\ Len(sent) = 1 /\ IsError(sent[1]) /\ sent[1].session_id = session_id
        /\ session = "none" /\ to_session = <<>>
        /\ n8n_payload = NoPayload /\ webhook_outcome = NoOutcome
        /\ n_calls = 0 /\ n_events = 0

\* C3's case: an auth frame with an empty token has been turned away
C3_Witness ==
    /\ FirstFrameRead
    /\ message = Frame("object", [type |-> str_auth, token |-> <<>>])
    /\ pc = "done" /\ socket = "closed" /\ session = "none"
    /\ sent = << Error("Authentication required as first message.", session_id) >>

\* the batch of a send_tool_response answers the calls cs one for one
ResponsesMatch(cs, batch) ==
    batch = [i \in 1..Len(cs) |-> [id |-> cs[i].id, name |-> cs[i].name]]

\* C4: the batch sent to the model session for an event holds exactly one
\* response per tool call of the event, with the call's id and name.
C4_OneResponsePerCall ==
    [][(to_session' # <<>> /\ to_session'[1].op = "send_tool_response")
         => ResponsesMatch(gemini_message.function_calls,
                           to_session'[1].function_responses)]_vars

\* C5: when call_n8n_webhook raises, the call is answered with an error-shaped
\* response appended to the responses of the event, the loop goes on to the
\* next call, and session, socket and handler stay as they are.
C5_WebhookFailureIsolated ==
    [][(WebhookReturns /\ webhook_outcome'.raised) =>
         /\ Len(function_responses') = Len(function_responses) + 1
         /\ SubSeq(function_responses', 1, Len(function_responses)) = function_responses
         /\ function_responses'[Len(function_responses')].id = LastCall.id
         /\ function_responses'[Len(function_responses')].name = LastCall.name
         /\ DOMAIN function_responses'[Len(function_responses')].response = {"error"}
         /\ AtForFc'
         /\ session' = "open" /\ socket' = socket /\ pc' # "done"
         /\ state' = state]_vars

\* C5's case: the second call of an event raised after the first was answered
\* with the webhook's reply
C5_Witness ==
    /\ webhook_outcome.raised
    /\ AtForFc
    /\ Len(function_responses) = 2
    /\ "error" \notin DOMAIN function_responses[1].response
    /\ DOMAIN function_responses[2].response = {"error"}

\* C6: in the voice gateway, after a tool invocation whose webhook reply has
\* no fare field, RideDraftState.fare is what it was before the invocation.
C6_FareKeptWithoutReplyFare ==
    (gateway = "voice" /\ AtForFc /\ webhook_outcome # NoOutcome
       /\ ~webhook_outcome.raised /\ "fare" \notin DOMAIN webhook_outcome.body)
      => FareOf(state) = FareOf(state_before)

\* the function call is one whose arguments the gateway merges into the state
Merges(fc) ==
    IF gateway = "voice" THEN fc.name \in {"get_fare_details", "book_ride"}
    ELSE fc.name = "process_ride_details"

\* C7: merging the arguments of a tool call into RideDraftState sets every
\* key of the arguments to the argument's value and keeps every other key.
C7_MergeLatestWins ==
    [][(TakesCall /\ Merges(LastCall')) =>
         /\ DOMAIN state' = DOMAIN state \cup DOMAIN LastCall'.args
         /\ \A k \in DOMAIN state' :
               state'[k] = IF k \in DOMAIN LastCall'.args THEN LastCall'.args[k]
                           ELSE state[k]]_vars

\* C7's case: a draft from A to B merged with {endLocation: C}
C7_Witness ==
    /\ state_before # NoState
    /\ state_before["startLocation"] = loc_A /\ state_before["endLocation"] = loc_B
    /\ Merges(LastCall) /\ LastCall.args = [endLocation |-> loc_C]
    /\ state["startLocation"] = loc_A /\ state["endLocation"] = loc_C
    /\ state["startDate"] = state_before["startDate"]

\* the function call is the gateway's fare call
IsFareCall(fc) ==
    IF gateway = "voice" THEN fc.name = "get_fare_details"
    ELSE fc.name = "process_ride_details"

\* the state holds a date or a time that strptime does not parse
FailsValidation(st) ==
    \/ st["startDate"] \notin {None, <<>>} /\ ~StrptimeDate(st["startDate"])
    \/ st["startTime"] \notin {None, <<>>} /\ ~StrptimeTime(st["startTime"])

\* C8: a fare call that leaves a startDate or startTime failing validation is
\* answered with an error-shaped response and no webhook call is made for it.
C8_InvalidDateTimeShortCircuits ==
    [][(TakesCall /\ IsFareCall(LastCall') /\ FailsValidation(state')) =>
         /\ Len(function_responses') = Len(function_responses) + 1
         /\ function_responses'[Len(function_responses')].id = LastCall'.id
         /\ function_responses'[Len(function_responses')].name = LastCall'.name
         /\ DOMAIN function_responses'[Len(function_responses')].response = {"error"}
         /\ ~AtWebhook' /\ AtForFc'
         /\ n8n_payload' = NoPayload]_vars

\* C8's case: a fare call left the date 2025-05-24 and was answered with an error
C8_Witness ==
    /\ AtForFc /\ gemini_message.function_calls # <<>>
    /\ IsFareCall(LastCall) /\ LastCall.args = [startDate |-> d_2025_05_24]
    /\ state["startDate"] = d_2025_05_24
    /\ function_responses # <<>>
    /\ function_responses[Len(function_responses)].id = LastCall.id
    /\ DOMAIN function_responses[Len(function_responses)].response = {"error"}
    /\ n8n_payload = NoPayload /\ webhook_outcome = NoOutcome

\* C9: a fare call with candidate startDate and startTime goes on to the
\* webhook if and only if the date parses as DD-MM-YYYY and the time parses as
\* 12-hour H:MM AM/PM.
C9_ValidationAcceptsIffParses ==
    (gemini_message.function_calls # <<>> /\ IsFareCall(LastCall)
       /\ DOMAIN LastCall.args = {"startDate", "startTime"})
      => (AtWebhook <=> (StrptimeDate(LastCall.args["startDate"])
                          /\ StrptimeTime(LastCall.args["startTime"])))

\* the frame is one of the protocol errors of an authenticated connection
ProtocolError(m) ==
    \/ m.kind = "malformed"
    \/ /\ m.kind = "object"
       /\ \/ Get(m.data, "text", <<>>) = <<>> /\ Get(m.data, "audio", <<>>) = <<>>
          \/ gateway = "hybrid" /\ Get(m.data, "authorization", <<>>) = <<>>

\* the gateway is about to read the next frame of the connection
ReaderReady == IF gateway = "voice" THEN pc = "relay" /\ c2g = "recv" ELSE pc = "recv"

\* C10: a protocol-error frame on an authenticated connection is answered with
\* an error message carrying the session id, the connection stays open and
\* the gateway reads the next frame.
C10_ProtocolErrorRecovers ==
    [][(n_frames' = n_frames + 1 /\ ProtocolError(message')) =>
         /\ Len(sent') = 1 /\ IsError(sent'[1]) /\ sent'[1].session_id = session_id
         /\ socket' = "open"
         /\ ReaderReady']_vars

\* C11: a connection on which no frame arrives for the 600-second window is
\* closed by the gateway with code 1000 and reason "Inactivity timeout": no
\* connection is seen idle for longer than the window without that close.
C11_IdleConnectionClosed ==
    idle > Window => (socket = "closed" /\ close_frame = InactivityClose)

\* C12: in the voice gateway, once the client has disconnected, both relay
\* tasks terminate and handle_websocket returns, whether or not the model
\* session emits a further event.
C12_DisconnectTerminates ==
    (gateway = "voice" /\ socket = "client_closed") ~> (pc = "done")

\* C13: in the voice gateway every turn-complete signal is answered with a
\* final message; a confirm message follows that final exactly when the
\* booking_confirmed flag was latched, and the flag is cleared, so that a
\* latched confirmation yields one confirm message and no second one.
C13_FinalThenConfirmOnce ==
    [][(gateway = "voice" /\ turn_complete' /\ socket = "open") =>
         /\ sent' # <<>>
         /\ IF booking_confirmed
            THEN /\ Len(sent') >= 2
                 /\ sent'[Len(sent') - 1] = Final(session_id)
                 /\ sent'[Len(sent')] = Confirm
            ELSE sent'[Len(sent')] = Final(session_id)
         /\ \A i \in 1..Len(sent') :
               (sent'[i] = Confirm) => (booking_confirmed /\ i = Len(sent'))
         /\ ~booking_confirmed']_vars

\* C13's case: the turn after a confirmed book_ride has completed; final and
\* confirm went out and the flag is clear
C13_Witness ==
    /\ gateway = "voice" /\ turn_complete
    /\ sent = << Final(session_id), Confirm >>
    /\ ~booking_confirmed

\* C14: in the hybrid gateway every inbound frame gets exactly one frame back;
\* for an accepted frame that is the end-of-turn reply, sent when the model
\* turn completes while the client is connected.
C14_EveryFrameAnswered ==
    [][(gateway = "hybrid" /\ turn_complete' /\ socket = "open") =>
         (Len(sent') = 1 /\ "response" \in DOMAIN sent'[1])]_vars

\* the frame carries no authorization value
NoAuthorization(m) ==
    m.kind # "object" \/ ~Truthy(Get(m.data, "authorization", None))

\* a step in which the hybrid gateway reads a frame
ReadsFrame == gateway = "hybrid" /\ n_frames' = n_frames + 1

\* C15: in the hybrid gateway a frame without an authorization value is
\* answered with an error, nothing of it is forwarded to the model session and
\* no turn (hence no webhook call) starts; every webhook payload carries the
\* authorization of the frame that started the turn.
C15_AuthorizationRequired ==
    [][/\ (ReadsFrame /\ NoAuthorization(message')) =>
              /\ Len(sent') = 1 /\ IsError(sent'[1])
              /\ to_session' = <<>>
              /\ pc' = "recv" /\ n8n_payload' = n8n_payload
       /\ (gateway = "hybrid" /\ TakesCall /\ pc' = "webhook") =>
              /\ ~NoAuthorization(message)
              /\ n8n_payload'.headers.authorization = message.data["authorization"]
      ]_vars

\* C15's case: the second frame of the connection has text and no
\* authorization and has just been rejected
C15_Witness ==
    /\ gateway = "hybrid" /\ n_frames = 2
    /\ message.kind = "object" /\ "text" \in DOMAIN message.data
    /\ "authorization" \notin DOMAIN message.data
    /\ sent = << Error("Missing authorization", session_id) >>
    /\ pc = "recv"

\* the rows of a sender
RowsOf(t, wa_id) == {r \in t : r.wa_id = wa_id}

\* a step in which the invocation's check_if_thread_exists runs
LooksUp == inv[1].pc = "lookup" /\ inv'[1].pc # "lookup"

\* C16: check_if_thread_exists returns the stored history and state exactly
\* when the sender has a row written at most 5 minutes before now, and then
\* leaves the table alone; for an older row it returns absent and the row is
\* gone afterwards; without a row it returns absent.
C16_FreshThreadsOnly ==
    [][LooksUp =>
         LET rows == RowsOf(threads, inv[1].wa_id)
         IN  /\ \A r \in rows :
                  IF now - FromIsoFormat(r.timestamp) <= 5
                  THEN /\ inv'[1].read = Loads(r.history)
                       /\ current_state' = r.current_state
                       /\ threads' = threads
                  ELSE /\ inv'[1].read = None
                       /\ current_state' = None
                       /\ RowsOf(threads', inv[1].wa_id) = {}
                       /\ threads' \subseteq threads
             /\ rows = {} => (inv'[1].read = None /\ threads' = threads)]_vars

\* C16's case: a row read six minutes after it was written has been reported
\* absent and is gone
C16_Witness ==
    /\ inv[1].pc = "turn"
    /\ inv[1].row # NoRow
    /\ now - FromIsoFormat(inv[1].row.timestamp) = 6
    /\ inv[1].read = None
    /\ RowsOf(threads, inv[1].wa_id) = {}

\* the text equals hello, hi or hii when case is ignored
GreetingText(message_body) ==
    Lower(message_body) \in {<<"h", "e", "l", "l", "o">>, <<"h", "i">>, <<"h", "i", "i">>}

\* the invocation has ended, by a return or an exception
Ended == inv[1].pc \in {"returned", "raised"}

\* C17: once a greeting has been handled the sender has no thread, the model
\* was not invoked for the message and nothing was written to the store.
C17_GreetingResets ==
    (Ended /\ GreetingText(inv[1].message_body)) =>
        /\ RowsOf(threads, inv[1].wa_id) = {}
        /\ ~inv[1].invoked /\ ~inv[1].wrote

\* C17's case: a greeting in mixed case came from a sender who had a thread;
\* the thread is gone and the greeting was sent
C17_Witness ==
    /\ inv[1].pc = "returned"
    /\ inv[1].message_body = <<"h", "E", "L", "L", "O">>
    /\ inv[1].row # NoRow
    /\ inv[1].greeting = send_wati_sms_greet(inv[1].wa_id, name_Sam)
    /\ RowsOf(threads, inv[1].wa_id) = {}

\* C18: after a non-greeting message has been handled the store holds a row
\* of the sender whose history is the fresh history read (or the empty one)
\* extended with the user's message and the model's reply, and whose
\* current_state is the coarse state of the turn.
C18_TurnStored ==
    (inv[1].pc = "returned" /\ ~GreetingText(inv[1].message_body)) =>
        LET base == (IF inv[1].read = None THEN <<>> ELSE inv[1].read)
                      \o << UserTurn(inv[1].message_body) >>
        IN  \E r \in RowsOf(threads, inv[1].wa_id) :
              LET history == Loads(r.history)
              IN  /\ Len(history) > Len(base)
                  /\ SubSeq(history, 1, Len(base)) = base
                  /\ \A i \in (Len(base) + 1)..Len(history) : history[i].role = "model"
                  /\ r.current_state = current_state

\* C19: the result for a non-greeting message is the model's text, or the
\* placeholder when the model gave no text; it is never empty or null.
C19_ResultNeverEmpty ==
    (inv[1].pc = "returned" /\ ~GreetingText(inv[1].message_body)) =>
        /\ Truthy(inv[1].result)
        /\ \E i \in 1..Len(inv[1].history) :
              /\ inv[1].history[i].role = "model"
              /\ inv[1].history[i].parts[1].text = inv[1].result

\* no sender has two rows
OneRowPerSender == \A r1, r2 \in threads : r1.wa_id = r2.wa_id => r1 = r2

\* a step in which the invocation's store_thread runs
Stores == ~inv[1].wrote /\ inv'[1].wrote

\* C20: the table never holds two rows of one sender; store_thread leaves the
\* sender's row with the history, state and timestamp it was given and leaves
\* the rows of other senders as they were.
C20_UpsertOneRow ==
    [][/\ OneRowPerSender'
       /\ Stores =>
            /\ Cardinality(RowsOf(threads', inv[1].wa_id)) = 1
            /\ \A r \in RowsOf(threads', inv[1].wa_id) :
                  /\ Loads(r.history) = inv'[1].history
                  /\ r.current_state = current_state'
                  /\ FromIsoFormat(r.timestamp) = now
            /\ threads' \ RowsOf(threads', inv[1].wa_id)
                  = threads \ RowsOf(threads, inv[1].wa_id)]_vars

\* C20's case: store_thread has overwritten the sender's row, written some
\* minutes earlier, while another sender has a row
C20_Witness ==
    /\ inv[1].pc = "returned" /\ inv[1].wrote
    /\ inv[1].read # None
    /\ now > 0
    /\ \E r \in RowsOf(threads, inv[1].wa_id) :
          FromIsoFormat(r.timestamp) = now /\ Loads(r.history) = inv[1].history
    /\ \E r \in threads : r.wa_id # inv[1].wa_id

\* the last call failed in the network or the transport: the request was
\* posted and was not answered with a success status
TransportFailure ==
    webhook.called /\ webhook.request # NoPayload /\ webhook.transport.kind # "ok"

\* the outcome is an error-shaped object handed back to the caller
ErrorShaped(outcome) == ~outcome.raised /\ DOMAIN outcome.body = {"error"}

\* C21: in every variant, a call of call_n8n_webhook whose HTTP call fails in
\* the network or the transport, a non-success status included, does not
\* raise: it returns an object {"error": description}.
C21_WebhookNeverRaises == TransportFailure => ErrorShaped(webhook.outcome)

\* the value of N8N_WEBHOOK_URL is read by the client of config.py, main.py
\* and fc.py; wa.py has the URL as a constant of its own
ReadsUrl == webhook.variant \in {"config", "voice", "hybrid"}

\* C22: with N8N_WEBHOOK_URL not configured, every call of the webhook client
\* of each gateway returns {"error": "Webhook URL is not configured."} and
\* posts no request.
C22_NotConfiguredShortCircuits ==
    webhook.called /\ ReadsUrl /\ ~Truthy(webhook.url) =>
        /\ webhook.outcome = Returned([error |-> "Webhook URL is not configured."])
        /\ webhook.request = NoPayload

\* C23: every payload the adapter posts to the webhook while it handles a
\* message of sender wa_id has that wa_id as its session_id and the fixed
\* bearer token under headers.authorization.
C23_PayloadCarriesSender ==
    \A w \in Workers :
        inv[w].posted # NoPayload =>
            /\ inv[w].posted.session_id = inv[w].wa_id
            /\ inv[w].posted.headers.authorization = BearerToken

\* C24: the health listener answers every GET on / and on /health with status
\* 200 and the body OK, and every HEAD with status 200.
C24_HealthAnswers200 ==
    \A i \in 1..Len(health) :
        /\ health[i].method = "GET" /\ health[i].path \in {<<"/">>, <<"/health">>} =>
              health[i].response = HttpResponse(200, str_OK)
        /\ health[i].method = "HEAD" => health[i].response.status = 200

\* a message the client receives as output of the model: a chunk, final or
\* confirm
ModelOutput(m) == "type" \in DOMAIN m /\ m.type \in {"audio_chunk", "chunk", "final", "confirm"}

IsChunk(m) == "type" \in DOMAIN m /\ m.type \in {"audio_chunk", "chunk"}

\* the function calls of the event taken last have not been answered yet
ToolResponsePending == gateway = "voice" /\ g2c \in {"for_fc", "webhook"}

\* the place of a message in the output of one event: the audio chunk, the
\* input transcription, the output transcription, final, confirm
OutputRank(m) ==
    CASE ~ModelOutput(m) -> 0
      [] m.type = "audio_chunk" -> 1
      [] m.type = "chunk" /\ m.chunk = "transcription_chunk" -> 2
      [] m.type = "chunk" -> 3
      [] m.type = "final" -> 4
      [] OTHER -> 5

\* C25: on a voice connection, while the function calls of an event are
\* unanswered no later event is taken and no model output goes to the client
\* except in the step that sends the event's responses to the model session
\* as one batch; chunks go to the client only in the step that takes their
\* event, in the order audio, input transcription, output transcription.
C25_ToolResponsesBeforeLaterOutput ==
    [][gateway = "voice" =>
         /\ ToolResponsePending =>
              /\ n_events' = n_events
              /\ (\E i \in 1..Len(sent') : ModelOutput(sent'[i])) =>
                    /\ to_session' = << SendToolResponse(function_responses) >>
                    /\ \A i \in 1..Len(sent') : ~IsChunk(sent'[i])
         /\ (\E i \in 1..Len(sent') : IsChunk(sent'[i])) => n_events' = n_events + 1
         /\ \A i, j \in 1..Len(sent') :
               i < j /\ ModelOutput(sent'[i]) /\ ModelOutput(sent'[j]) =>
                   OutputRank(sent'[i]) < OutputRank(sent'[j])]_vars

\* C25's case: after an earlier event, the responses of an
\* event with two function calls went to the model session in one batch, and
\* in that step final went to the client
C25_Witness ==
    /\ gateway = "voice"
    /\ Len(to_session) = 1 /\ to_session[1].op = "send_tool_response"
    /\ Len(to_session[1].function_responses) = 2
    /\ \E i \in 1..Len(sent) : sent[i] = Final(session_id)
    /\ n_events > 1

\* gemini_to_client is running on a connection whose client is there
Relaying == gateway = "voice" /\ pc = "relay" /\ socket = "open" /\ g2c \in {"receive", "for_fc", "webhook"}

\* C26: on a voice connection whose client has not disconnected, no step, a
\* failure while relaying an event included, closes the connection or ends
\* the relay of model output: after the step the gateway still takes the
\* events of later turns.
C26_RelayFailureKeepsRelaying ==
    [][Relaying => /\ pc' = "relay"
                   /\ socket' \in {"open", "client_closed"}
                   /\ g2c' \in {"receive", "for_fc", "webhook"}]_vars

\* a step in which an exception leaves the handling of the connection for the
\* handler's outer except clause: opening the model session has failed
Escapes == gateway \in {"voice", "hybrid"} /\ pc = "connect" /\ pc' \in {"done", "raised"}

\* C27: in both gateways an exception that escapes to the handler's outer
\* except clause is reported to the client as an error message with the
\* session id when the socket is open, and the handler does not raise, whether
\* the socket is open or already closed.
C27_EscapedExceptionReported ==
    [][Escapes => /\ pc' # "raised"
                  /\ socket = "open" =>
                        /\ Len(sent') = 1 /\ IsError(sent'[1])
                        /\ sent'[1].session_id = session_id]_vars

\* a step in which invocation w stores the thread
StoresBy(w) == ~inv[w].wrote /\ inv'[w].wrote

\* invocations w and o handled messages of one sender and both read the
\* thread before either wrote it: o has stored and w holds what o had read
ReadBeforeEitherWrote(w, o) ==
    /\ inv[o].pc = "returned" /\ inv[o].wrote
    /\ inv[o].wa_id = inv[w].wa_id
    /\ inv[o].read = inv[w].read

\* the history check_if_thread_exists returned, [] for None
ReadHistory(i) == IF i.read = None THEN <<>> ELSE i.read

\* C28: when two invocations for one sender have both read the thread before
\* either stored it, the row after the second store holds the later writer's
\* history alone, which is what it read plus its own turn: the turn of the
\* other invocation is not in it; both invocations return normally.
C28_LastWriteWins ==
    [][\A w \in Workers : \A o \in Workers \ {w} :
          StoresBy(w) /\ ReadBeforeEitherWrote(w, o) =>
              /\ \A r \in threads' : r.wa_id = inv[w].wa_id => Loads(r.history) = inv'[w].history
              /\ \E r \in threads' : r.wa_id = inv[w].wa_id
              /\ inv[w].history = ReadHistory(inv[w]) \o << UserTurn(inv[w].message_body) >>
              /\ SubSeq(inv'[w].history, 1, Len(inv[w].history)) = inv[w].history
              /\ \A k \in (Len(inv[w].history) + 1)..Len(inv'[w].history) :
                    inv'[w].history[k].role = "model"
              /\ Len(inv[o].history) > Len(ReadHistory(inv[o]))
              /\ inv'[w].pc = "returned" /\ inv'[o].pc = "returned"]_vars

\* C28's case: both invocations read the sender's stored thread, the first
\* stored its turn, the second stored over it, and the row has the second
\* message but not the first
C28_Witness ==
    /\ inv[1].pc = "returned" /\ inv[1].wrote /\ inv[2].pc = "returned" /\ inv[2].wrote
    /\ inv[1].wa_id = inv[2].wa_id
    /\ inv[1].read = inv[2].read /\ inv[1].read # None
    /\ inv[1].message_body # inv[2].message_body
    /\ \E r \in threads :
          /\ r.wa_id = inv[2].wa_id
          /\ Loads(r.history) = inv[2].history
          /\ \A k \in 1..Len(inv[2].history) :
                inv[2].history[k] # UserTurn(inv[1].message_body)

\* a step of connection c: its handler moves or its record changes
StepOf(c) == conns'[c] # conns[c]

\* C29: connections served at the same time share no state: a step of one
\* connection, whatever the interleaving, leaves the state and the session
\* id of every other connection as they were, and a payload a connection
\* builds carries that connection's session id and its state.
C29_ConnectionsIsolated ==
    [][(gateway \in {"voice_server", "hybrid_server"}) =>
         \A c \in Conns :
            /\ StepOf(c) =>
                  \A d \in Conns \ {c} :
                      /\ conns'[d].state = conns[d].state
                      /\ conns'[d].session_id = conns[d].session_id
            /\ conns'[c].n8n_payload # NoPayload =>
                  /\ conns'[c].n8n_payload.session_id = conns'[c].session_id
                  /\ conns'[c].n8n_payload.state = conns'[c].state]_vars

\* C29's case: two connections are open with states that differ, each with a
\* payload posted for its own call
C29_Witness ==
    /\ gateway \in {"voice_server", "hybrid_server"}
    /\ conns[1].pc = "webhook" /\ conns[2].pc = "webhook"
    /\ conns[1].session_id # conns[2].session_id
    /\ conns[1].state # conns[2].state
    /\ conns[1].n8n_payload.state = conns[1].state
    /\ conns[2].n8n_payload.state = conns[2].state

\* a turn of the hybrid connection is under way: the model's events are being
\* received or the function calls of one are being worked on
InTurn == gateway = "hybrid" /\ pc \in {"receive", "for_fc", "webhook"}

\* C30: on a hybrid connection a frame is read only when no turn is under
\* way: the turn of the frame before has ended, with no function call
\* unanswered and no webhook call outstanding; while a turn is under way no
\* frame is read and the frame of the turn stays the current one.
C30_TurnsDoNotOverlap ==
    [][/\ ReadsFrame =>
            /\ ~InTurn
            /\ gemini_message = NoMessage /\ function_responses = <<>>
            /\ n8n_payload = NoPayload
       /\ InTurn => n_frames' = n_frames /\ message' = message]_vars

\* C30's case: the second frame is read and starts a turn after the turn of
\* the first frame, with a function call and its webhook round trip, ended
C30_Witness ==
    /\ gateway = "hybrid" /\ n_frames = 2 /\ pc = "receive"
    /\ to_session # <<>> /\ to_session[1].op # "send_tool_response"
    /\ n_calls > 0 /\ webhook_outcome = NoOutcome /\ fare_returned


\* the tokens a connection can have been authenticated with
AuthTokens ==
    { frame.data["token"] :
        frame \in {f \in AuthFrames : f.kind = "object" /\ main_AuthAccepted(f.data)} }

\* C31: on a voice connection every webhook payload has as
\* headers.authorization the token of the connection's auth frame, whatever
\* function-call arguments and reply states were merged into the state
\* before.
C31_PayloadCarriesAuthToken ==
    gateway = "voice" /\ n8n_payload # NoPayload =>
        n8n_payload.headers.authorization \in AuthTokens


\* C32: a fare call rejected by the date/time validation leaves the ride
\* state as it was before the call.
C32_RejectionRestoresState ==
    [][(TakesCall /\ IsFareCall(LastCall') /\ FailsValidation(state')) =>
          state' = state]_vars


\* the step sends a confirm message to the client
SendsConfirm == \E i \in 1..Len(sent') : sent'[i] = Confirm

\* the step is the return of a book_ride webhook call whose reply has the
\* status BOOKING_CONFIRMED
ReceivesConfirmation ==
    /\ AtWebhook /\ LastCall.name = "book_ride"
    /\ ~webhook_outcome'.raised
    /\ "status" \in DOMAIN webhook_outcome'.body
    /\ webhook_outcome'.body["status"] = "BOOKING_CONFIRMED"

\* C33: in the voice gateway the booking latch is clear when the connection
\* starts, only a book_ride reply with status BOOKING_CONFIRMED sets it, and a
\* confirm message is sent only by a step that finds it set and clears it; so
\* a confirm message is sent only if such a reply arrived since the last one.
C33_ConfirmOnlyAfterConfirmedBooking ==
    /\ ~booking_confirmed
    /\ [][(gateway = "voice") =>
            /\ (booking_confirmed' /\ ~booking_confirmed) => ReceivesConfirmation
            /\ (sent' # sent /\ SendsConfirm) => (booking_confirmed /\ ~booking_confirmed')]_vars

\* C33's case: the event of a confirmed book_ride call has completed the
\* turn: the responses went to the model, and final and confirm to the client
C33_Witness ==
    /\ gateway = "voice" /\ ~booking_confirmed
    /\ \E i \in 1..Len(sent) : sent[i] = Confirm
    /\ to_session # <<>>
    /\ "function_responses" \in DOMAIN to_session[1]
    /\ \E j \in 1..Len(to_session[1].function_responses) :
          to_session[1].function_responses[j].name = "book_ride"


\* C34: in the hybrid gateway the timeout closes a connection only when no
\* frame has arrived for the whole window.
C34_TimeoutOnlyAfterInactivity ==
    [][(gateway = "hybrid" /\ close_frame # InactivityClose /\ close_frame' = InactivityClose) =>
          idle >= Window]_vars


\* the sender of the invocation has a row that is fresh now
HasFreshRow ==
    \E r \in RowsOf(threads, inv[1].wa_id) : now - FromIsoFormat(r.timestamp) <= TTL

\* C35: check_if_thread_exists on a fresh thread leaves the whole table as it
\* was, and a row comes into the table, or gets another timestamp, only by
\* the store_thread of a turn, stamped with the time of that store: the age
\* of a thread counts from its last store, not from its last read.
C35_ReadKeepsTimestamp ==
    [][(gateway = "whatsapp") =>
          /\ (LooksUp /\ HasFreshRow) => threads' = threads
          /\ \A r \in threads' \ threads :
                /\ inv[1].pc = "turn" /\ inv'[1].wrote
                /\ r.wa_id = inv[1].wa_id
                /\ FromIsoFormat(r.timestamp) = now]_vars

\* C35's case: a thread was read four minutes after it was stored; it was
\* returned, and its row is in the table with the timestamp of the store
C35_Witness ==
    /\ gateway = "whatsapp"
    /\ inv[1].pc = "turn"
    /\ inv[1].row # NoRow /\ inv[1].read # None
    /\ now - FromIsoFormat(inv[1].row.timestamp) = 4
    /\ RowOf(threads, inv[1].wa_id) = inv[1].row


\* C36: every row of the thread store has a null current_state, so that
\* check_if_thread_exists returns no other coarse state for any sender, and
\* an invocation that has stored the thread left the coarse state None.
C36_StoredStateIsNull ==
    (gateway = "whatsapp") =>
        /\ \A r \in threads : r.current_state = None
        /\ \A wa_id \in WaIds :
              check_if_thread_exists(threads, wa_id, now).current_state = None
        /\ (inv[1].pc = "returned" /\ inv[1].wrote) => current_state = None

\* C36's case: a message with a keyword came for a sender whose thread is
\* stored; the coarse state is "enquiry", nothing was stored for the message
\* and the sender's row has a null current_state
C36_Witness ==
    /\ gateway = "whatsapp"
    /\ inv[1].pc = "returned" /\ ~inv[1].wrote /\ ~IsGreeting(inv[1].message_body)
    /\ current_state = str_enquiry
    /\ RowOf(threads, inv[1].wa_id) # NoRow
    /\ RowOf(threads, inv[1].wa_id).current_state = None

====
